---- MODULE Spec2Model ----
(***************************************************************************)
(* A model of the OKC happy-hour dashboard: the time codec, the location   *)
(* filter (get_locations), the spreadsheet repository (data_store.py), the *)
(* relational repository (db.py) and the callbacks of app.py / admin.py    *)
(* that read and write them.                                               *)
(*                                                                         *)
(* Representation of Python values                                         *)
(*   - a str that the code inspects character by character (days, times,   *)
(*     filter selectors) is a sequence of one-character strings;           *)
(*     None in such a position is NoneStr;                                 *)
(*   - a str the code only stores, compares for equality or tests for      *)
(*     truthiness (name, address, description) is a TLA+ string; None in   *)
(*     such a position is "None", the empty string is "";                  *)
(*   - an optional integer (n_clicks, an id kept in a dcc.Store) is a      *)
(*     sequence of length 0 (None) or 1;                                   *)
(*   - a dataframe is a sequence of records, one per row, in row order.    *)
(***************************************************************************)
EXTENDS Integers, Sequences, FiniteSets, TLC

VARIABLES
    \* ---- time codec (map.py / app.py helpers)
    c_pc,       \* "input" | "parsed" | "formatted" | "slider" | "displayed"
    c_str,      \* the time string handed to time_to_minutes
    c_min,      \* result of time_to_minutes: [ok, val]
    c_out,      \* result of minutes_to_time (a string), NoneStr before
    \* ---- location filter (get_locations as called by update_map)
    f_pc,       \* "loaded" | "shown"
    f_locs,     \* the dataframe the repository returned
    f_day,      \* day-filter dropdown value
    f_time,     \* time-filter dropdown value
    f_out,      \* the dataframe update_map hands to create_map
    \* ---- app.py on the spreadsheet repository (data_store.py)
    ws,                 \* the worksheet's data rows (sheet rows 2, 3, ...), each
                        \* a tuple of nine cells in the header's column order
    refresh_trigger,    \* dcc.Store 'refresh-trigger'
    manage_refresh,     \* dcc.Store 'manage-refresh'
    table,              \* the rows update_locations_table last rendered
    last,               \* the last callback run: its inputs (the form or the
                        \* button), the calls it made to the geocoder and the
                        \* repository, and its outputs (the alert, the values
                        \* written back to the form's fields)
    \* ---- admin.py on the relational repository (db.py)
    db,                 \* the rows of table locations, in id order
    admin_refresh,      \* dcc.Store 'admin-refresh-trigger'
    admin_table,        \* the ids of the rows update_locations_table rendered
    edit_modal,         \* 'edit-modal'.is_open
    edit_location_id,   \* dcc.Store 'edit-location-id': <<>> or <<id>>
    edit_form,          \* the values toggle_edit_modal put in the edit modal's
                        \* six inputs; what the operator types over them is an
                        \* input of save_edited_location
    admin_last,         \* the last admin callback run: its inputs, the calls it
                        \* made to the geocoder and the repository, its outputs
    \* ---- app2.py on the same database file
    db_seq,             \* sqlite_sequence: the highest id AUTOINCREMENT issued
    app2_refresh,       \* app2.py's dcc.Store 'refresh-trigger'
    \* ---- data_store.py called directly
    r_ws,               \* the worksheet's data rows
    r_retired,          \* history: the ids of the records deleted so far
    r_last,             \* the last repository call: its name, argument, return
                        \* value (<<>> for None) and the rows it found
    \* ---- one run of app.py's add_location, statement by statement
    s_pc,               \* "Idle" | "Validating" | "Geocoding" | "Persisting"
    s_form,             \* the State values of the run
    s_geo,              \* <<>> or <<(lat, lon)>> once geocode_address returned
    s_log,              \* the calls of the run so far: "geocode", "insert"
    s_outcome,          \* how the last run returned ("none" before the first)
    s_ws,               \* the worksheet's data rows
    s_refresh,          \* dcc.Store 'refresh-trigger'
    \* ---- two processes calling data_store.insert_location at once
    w_ws,               \* the worksheet's data rows
    w_pc,               \* per writer: "idle" | "read" | "appended"
    w_existing,         \* per writer: the records its get_all_records returned
    w_row,              \* per writer: the row (without id) it is inserting
    w_ret,              \* per writer: <<>> or <<the id its call returned>>
    \* ---- the two repositories given the same calls
    b_ws,               \* the worksheet's data rows (data_store.py)
    b_db,               \* the rows of table locations (db.py)
    b_seq,              \* sqlite_sequence: the highest id AUTOINCREMENT issued
    b_last,             \* the last call: its name, its argument, and the id
                        \* each repository gave the record it inserted
    \* ---- two admin sessions saving edits
    e_db,               \* the rows of table locations
    e_pc,               \* per session: "Idle", "Read" (get_location_by_id
                        \* returned) or "Resolved" (lat, lon are bound)
    e_form,             \* per session: the State values of its Save click
    e_existing,         \* per session: the row get_location_by_id returned
    e_coords,           \* per session: the (lat, lon) it will write
    e_last,             \* the last UPDATE: its session, whether the row had
                        \* been written since that session read it, and
                        \* whether the session geocoded
    \* ---- app2.py: the add form and the map
    m_db,               \* the rows of table locations
    m_seq,              \* the highest id AUTOINCREMENT issued
    m_checked,          \* per row: the 'input-days' value it was added with
                        \* (<<>> for a row of init_db)
    m_day,              \* the 'day-filter' value
    m_time,             \* the 'time-filter' value
    m_shown,            \* the ids of the rows on the map
    \* ---- app.py: the admin gate
    g_secret,           \* os.getenv("ADMIN_PASSWORD"): "None" when unset
    g_auth,             \* 'auth-store'
    g_pathname,         \* the url's pathname
    g_page,             \* 'page-content'
    g_clicks,           \* n_clicks of 'login-btn' (0 for None)
    g_last              \* the last callback: its name and inputs

codecVars  == <<c_pc, c_str, c_min, c_out>>
filterVars == <<f_pc, f_locs, f_day, f_time, f_out>>
sheetVars  == <<ws, refresh_trigger, manage_refresh, table, last>>
adminVars  == <<db, admin_refresh, admin_table, edit_modal, edit_location_id,
                edit_form, admin_last>>
app2Vars   == <<db_seq, app2_refresh>>
repoVars   == <<r_ws, r_retired, r_last>>
submitVars == <<s_pc, s_form, s_geo, s_log, s_outcome, s_ws, s_refresh>>
raceVars   == <<w_ws, w_pc, w_existing, w_row, w_ret>>
backendVars == <<b_ws, b_db, b_seq, b_last>>
sessionVars == <<e_db, e_pc, e_form, e_existing, e_coords, e_last>>
mapVars == <<m_db, m_seq, m_checked, m_day, m_time, m_shown>>
gateVars == <<g_secret, g_auth, g_pathname, g_page, g_clicks, g_last>>
vars == <<codecVars, filterVars, sheetVars, adminVars, app2Vars, repoVars,
          submitVars, raceVars, backendVars, sessionVars, mapVars, gateVars>>

----------------------------------------------------------------------------
(* Strings *)

NoneStr == <<"None">>

Digits == <<"0", "1", "2", "3", "4", "5", "6", "7", "8", "9">>

\* The characters that occur, in code-point order (Python compares str by
\* code point).
Ascii ==
    <<" ", "+", ",", "-">> \o Digits \o <<":">> \o
    <<"A", "F", "M", "S", "T", "W">> \o
    <<"a", "d", "e", "h", "i", "l", "n", "o", "r", "s", "t", "u", "y">>

Ord(c) == CHOOSE i \in 1..Len(Ascii) : Ascii[i] = c

\* Python: a < b on str.
StrLess(a, b) ==
    \E i \in 1..(Len(b)) :
        /\ i <= Len(a) + 1
        /\ \A j \in 1..(i - 1) : a[j] = b[j]
        /\ \/ i = Len(a) + 1
           \/ (i <= Len(a) /\ Ord(a[i]) < Ord(b[i]))

\* Python: a <= b on str.
StrLeq(a, b) == a = b \/ StrLess(a, b)

\* Python truthiness of an optional str.
Truthy(s) == s # NoneStr /\ s # <<>>

\* Python: sub in s (a plain substring search).
StrContains(s, sub) ==
    \E i \in 1..(Len(s) - Len(sub) + 1) : SubSeq(s, i, i + Len(sub) - 1) = sub

\* Python: sep.join(parts)
RECURSIVE Join(_, _)
Join(parts, sep) ==
    IF parts = <<>> THEN <<>>
    ELSE IF Len(parts) = 1 THEN parts[1]
    ELSE parts[1] \o sep \o Join(Tail(parts), sep)

\* Python: s.split(sep) for a one-character separator.
RECURSIVE Split(_, _)
Split(s, sep) ==
    IF \A i \in 1..Len(s) : s[i] # sep THEN <<s>>
    ELSE LET k == CHOOSE i \in 1..Len(s) :
                      s[i] = sep /\ \A j \in 1..(i - 1) : s[j] # sep
         IN <<SubSeq(s, 1, k - 1)>> \o Split(SubSeq(s, k + 1, Len(s)), sep)

----------------------------------------------------------------------------
(* Time codec *)

DigitVal(c) == (CHOOSE i \in 1..10 : Digits[i] = c) - 1

IsDigit(c) == \E i \in 1..10 : Digits[i] = c

RECURSIVE DecVal(_)
DecVal(ds) ==
    IF ds = <<>> THEN 0
    ELSE 10 * DecVal(SubSeq(ds, 1, Len(ds) - 1)) + DigitVal(ds[Len(ds)])

RECURSIVE Strip(_)
Strip(s) ==
    IF s # <<>> /\ s[1] = " " THEN Strip(Tail(s))
    ELSE IF s # <<>> /\ s[Len(s)] = " " THEN Strip(SubSeq(s, 1, Len(s) - 1))
    ELSE s

\* Python: int(s) for a str: surrounding blanks, an optional sign, decimal
\* digits; anything else raises ValueError (ok = FALSE).
PyInt(s) ==
    LET t == Strip(s)
        signed == t # <<>> /\ t[1] \in {"+", "-"}
        ds == IF signed THEN Tail(t) ELSE t
    IN IF ds # <<>> /\ \A i \in 1..Len(ds) : IsDigit(ds[i])
       THEN [ok |-> TRUE,
             val |-> IF signed /\ t[1] = "-" THEN 0 - DecVal(ds) ELSE DecVal(ds)]
       ELSE [ok |-> FALSE, val |-> 0]

\* h, m = map(int, time_str.split(':')); return h * 60 + m
\* The unpacking raises ValueError unless the split has exactly two parts.
time_to_minutes(time_str) ==
    LET parts == Split(time_str, ":")
    IN IF Len(parts) # 2 THEN [ok |-> FALSE, val |-> 0]
       ELSE LET h == PyInt(parts[1])
                m == PyInt(parts[2])
            IN IF h.ok /\ m.ok THEN [ok |-> TRUE, val |-> h.val * 60 + m.val]
               ELSE [ok |-> FALSE, val |-> 0]

RECURSIVE DecStr(_)
DecStr(n) ==
    IF n < 10 THEN <<Digits[n + 1]>>
    ELSE DecStr(n \div 10) \o <<Digits[(n % 10) + 1]>>

\* Python: f"{n:02d}": the sign counts in the width, zeros pad after it.
Fmt02d(n) ==
    IF n < 0 THEN <<"-">> \o DecStr(0 - n)
    ELSE IF n < 10 THEN <<"0">> \o DecStr(n)
    ELSE DecStr(n)

\* Mutant: the fields are formatted without zero padding (f"{h}:{m}").
minutes_to_time_unpadded(minutes) ==
    LET h == minutes \div 60
        m == minutes % 60
    IN (IF h < 0 THEN <<"-">> \o DecStr(0 - h) ELSE DecStr(h))
       \o <<":">> \o DecStr(m)

\* h = minutes // 60; m = minutes % 60; return f"{h:02d}:{m:02d}"
minutes_to_time(minutes) ==
    LET h == minutes \div 60
        m == minutes % 60
    IN Fmt02d(h) \o <<":">> \o Fmt02d(m)

\* The zero-padded "HH:MM" string of hour h and minute m, digit by digit.
HHMM(h, m) ==
    <<Digits[(h \div 10) + 1], Digits[(h % 10) + 1], ":",
      Digits[(m \div 10) + 1], Digits[(m % 10) + 1]>>

ValidTimeStrings == {HHMM(h, m) : h \in 0..23, m \in 0..59}

\* Inputs outside the valid format: an hour or minute out of range, a
\* negative component, an unpadded hour, no colon, three parts, no digits.
OddTimeStrings ==
    { HHMM(24, 0), HHMM(25, 0), HHMM(12, 60),
      <<"-", "1", ":", "3", "0">>,
      <<"9", ":", "0", "0">>,
      <<"1", "5", "0", "0">>,
      <<"1", ":", "2", ":", "3">>,
      <<"a", "d", ":", "0", "0">>,
      <<>> }

\* The add form's range slider: min=0, max=1440, step=30.
SliderValues == {30 * k : k \in 0..48}

----------------------------------------------------------------------------
(* Location filter *)

Mon == <<"M", "o", "n">>
Tue == <<"T", "u", "e">>
Fri == <<"F", "r", "i">>
Monday == Mon \o <<"d", "a", "y">>
Tuesday == Tue \o <<"s", "d", "a", "y">>
Friday == Fri \o <<"d", "a", "y">>
All == <<"A", "l", "l">>
Wed == <<"W", "e", "d">>
Thu == <<"T", "h", "u">>
Sat == <<"S", "a", "t">>
Sun == <<"S", "u", "n">>
Wednesday == Wed \o <<"n", "e", "s", "d", "a", "y">>
Thursday == Thu \o <<"r", "s", "d", "a", "y">>
Saturday == Sat \o <<"u", "r", "d", "a", "y">>
Sunday == Sun \o <<"d", "a", "y">>

\* df[df['days'].str.contains(day_filter, na=False)]: a row whose days is
\* missing gets the mask value False.
DayMask(row, day_filter) ==
    row.days # NoneStr /\ StrContains(row.days, day_filter)

\* (df['start_time'] <= time_filter) & (df['end_time'] >= time_filter):
\* an elementwise comparison with a missing value is False.
TimeMask(row, time_filter) ==
    /\ row.start_time # NoneStr /\ StrLeq(row.start_time, time_filter)
    /\ row.end_time # NoneStr /\ StrLeq(time_filter, row.end_time)

\* Mutant: the time mask is taken from the unfiltered frame and applied to the
\* day-filtered frame by position.
get_locations_df_positional(df, day_filter, time_filter) ==
    IF df = <<>> THEN df
    ELSE LET byDay == IF Truthy(day_filter) /\ day_filter # All
                      THEN SelectSeq(df, LAMBDA r : DayMask(r, day_filter))
                      ELSE df
             keep == {i \in 1..Len(byDay) : TimeMask(df[i], time_filter)}
             RECURSIVE Pick(_)
             Pick(i) == IF i > Len(byDay) THEN <<>>
                        ELSE (IF i \in keep THEN <<byDay[i]>> ELSE <<>>) \o Pick(i + 1)
         IN IF Truthy(time_filter) THEN Pick(1) ELSE byDay

\* Mutant: the "All" selector is not exempted from the day filter.
get_locations_df_all_filtered(df, day_filter, time_filter) ==
    IF df = <<>> THEN df
    ELSE LET byDay == IF Truthy(day_filter)
                      THEN SelectSeq(df, LAMBDA r : DayMask(r, day_filter))
                      ELSE df
         IN IF Truthy(time_filter)
            THEN SelectSeq(byDay, LAMBDA r : TimeMask(r, time_filter))
            ELSE byDay

\* Mutant: the upper endpoint of the time window is exclusive.
get_locations_df_open_end(df, day_filter, time_filter) ==
    IF df = <<>> THEN df
    ELSE LET byDay == IF Truthy(day_filter) /\ day_filter # All
                      THEN SelectSeq(df, LAMBDA r : DayMask(r, day_filter))
                      ELSE df
         IN IF Truthy(time_filter)
            THEN SelectSeq(byDay, LAMBDA r :
                     /\ r.start_time # NoneStr /\ StrLeq(r.start_time, time_filter)
                     /\ r.end_time # NoneStr /\ StrLess(time_filter, r.end_time))
            ELSE byDay

\* Mutant: the day filter compares the whole days string with the selector.
get_locations_df_exact_day(df, day_filter, time_filter) ==
    IF df = <<>> THEN df
    ELSE LET byDay == IF Truthy(day_filter) /\ day_filter # All
                      THEN SelectSeq(df, LAMBDA r : r.days = day_filter)
                      ELSE df
         IN IF Truthy(time_filter)
            THEN SelectSeq(byDay, LAMBDA r : TimeMask(r, time_filter))
            ELSE byDay

\* The body of get_locations after the load: the day filter, then the time
\* filter on what the day filter kept; an empty frame is returned as it is.
get_locations_df(df, day_filter, time_filter) ==
    IF df = <<>> THEN df
    ELSE LET byDay == IF Truthy(day_filter) /\ day_filter # All
                      THEN SelectSeq(df, LAMBDA r : DayMask(r, day_filter))
                      ELSE df
         IN IF Truthy(time_filter)
            THEN SelectSeq(byDay, LAMBDA r : TimeMask(r, time_filter))
            ELSE byDay

\* The values of the day-filter dropdowns (full names in map.py and app2.py,
\* abbreviations in app.py) and None, the default of get_locations.
DaySelectors == {All, Monday, Tuesday, Friday, Mon, Fri, NoneStr}

\* The values of the time-filter dropdown ('' is "All Times") and None.
TimeSelectors ==
    {<<>>, NoneStr, HHMM(15, 0), HHMM(17, 0), HHMM(19, 0), HHMM(20, 0)}

Row(id, name, address, lat, lon, description, days, start_time, end_time) ==
    [id |-> id, name |-> name, address |-> address, lat |-> lat, lon |-> lon,
     description |-> description, days |-> days,
     start_time |-> start_time, end_time |-> end_time]

\* Rows a repository can return: two of init_db's sample rows, rows the add
\* form writes (the slider's 1440 is stored as 24:00), a row whose times were
\* typed unpadded into the admin edit form, and a row whose days column is
\* NULL (the schema allows it).
FilterRows ==
    { Row(1, "The Pump Bar", "2425 N Walker Ave", "35.4945", "-97.5264",
          "$3 wells", Join(<<Monday, Tuesday>>, <<",">>), HHMM(15, 0), HHMM(19, 0)),
      Row(2, "Fassler Hall", "7 E Sheridan Ave", "35.4676", "-97.5164",
          "$5 beer", Join(<<Monday, Friday>>, <<",">>), HHMM(16, 0), HHMM(18, 0)),
      Row(3, "Late Bar", "1 Main St", "35.4700", "-97.5200",
          "late", Friday, HHMM(20, 0), HHMM(24, 0)),
      Row(4, "Early Bar", "2 Main St", "35.4800", "-97.5300",
          "early", Monday, <<"9", ":", "0", "0">>, HHMM(19, 0)),
      Row(5, "No Days", "3 Main St", "35.4900", "-97.5400",
          "", NoneStr, HHMM(15, 0), HHMM(19, 0)) }

MaxLocs == 2

RECURSIVE SeqsUpTo(_, _)
SeqsUpTo(S, n) ==
    IF n = 0 THEN {<<>>}
    ELSE LET shorter == SeqsUpTo(S, n - 1)
         IN shorter \cup {Append(s, x) : s \in shorter, x \in S}

Range(s) == {s[i] : i \in 1..Len(s)}

\* Frames with pairwise distinct rows.
FilterFrames ==
    {s \in SeqsUpTo(FilterRows, MaxLocs) : Cardinality(Range(s)) = Len(s)}

----------------------------------------------------------------------------
(* Spreadsheet repository (data_store.py) *)

MaxRows == 2
MaxRefresh == 1

\* The header row of the worksheet (sheet row 1).
Header ==
    <<"id", "name", "address", "lat", "lon", "description", "days",
      "start_time", "end_time">>

Column(name) == CHOOSE j \in 1..Len(Header) : Header[j] = name

\* ws.get_all_records(): one dict per data row, keyed by the header row.
get_all_records(sheet) ==
    [k \in 1..Len(sheet) |->
        [id |-> sheet[k][Column("id")],
         name |-> sheet[k][Column("name")],
         address |-> sheet[k][Column("address")],
         lat |-> sheet[k][Column("lat")],
         lon |-> sheet[k][Column("lon")],
         description |-> sheet[k][Column("description")],
         days |-> sheet[k][Column("days")],
         start_time |-> sheet[k][Column("start_time")],
         end_time |-> sheet[k][Column("end_time")]]]

StoredIds(sheet) == {get_all_records(sheet)[k].id : k \in 1..Len(sheet)}

\* load_locations: the records as a dataframe (ids are integers already).
load_locations(sheet) == get_all_records(sheet)

\* A None written to a cell leaves the cell empty; it reads back as ''.
CellOf(v) == IF v = "None" THEN "" ELSE v

RECURSIVE MaxOf(_)
MaxOf(S) ==
    IF S = {} THEN 0
    ELSE LET x == CHOOSE y \in S : TRUE
             m == MaxOf(S \ {x})
         IN IF x > m THEN x ELSE m

\* max([r["id"] for r in existing], default=0) + 1
NextId(sheet) == MaxOf(StoredIds(sheet)) + 1

\* Mutant: the next id is the number of records plus one.
insert_location_count(sheet, values) ==
    [ws |-> Append(sheet, <<Len(sheet) + 1>> \o values), ret |-> Len(sheet) + 1]

\* insert_location(row): values are row.values() in the caller's key order;
\* the appended row is [next_id] + values. The new sheet and the returned id.
insert_location(sheet, values) ==
    [ws |-> Append(sheet, <<NextId(sheet)>> \o values), ret |-> NextId(sheet)]

\* The sheet row numbers enumerate(records, start=2) pairs with records of
\* the given id, in order.
MatchingSheetRows(sheet, location_id) ==
    {i \in 2..(Len(sheet) + 1) : get_all_records(sheet)[i - 1].id = location_id}

\* ws.update_cell(row, col, value): sheet row `row` is data row `row - 1`; a
\* row number past the data writes into a blank row of the sheet.
update_cell(sheet, row, col, value) ==
    IF row - 1 \in 1..Len(sheet)
    THEN [sheet EXCEPT ![row - 1][col] = value]
    ELSE sheet

\* ws.delete_rows(row)
delete_rows(sheet, row) ==
    IF row - 1 \in 1..Len(sheet)
    THEN SubSeq(sheet, 1, row - 2) \o SubSeq(sheet, row, Len(sheet))
    ELSE sheet

Min(S) == CHOOSE x \in S : \A y \in S : x <= y

\* Mutant: the loop counts the records from 1, so the cell written is one
\* row above the record found.
update_description_start1(sheet, location_id, description) ==
    IF MatchingSheetRows(sheet, location_id) = {} THEN sheet
    ELSE update_cell(sheet, Min(MatchingSheetRows(sheet, location_id)) - 1, 6,
                     description)

\* Mutant: the description is written to column 5.
update_description_col5(sheet, location_id, description) ==
    IF MatchingSheetRows(sheet, location_id) = {} THEN sheet
    ELSE update_cell(sheet, Min(MatchingSheetRows(sheet, location_id)), 5,
                     description)

\* update_description: the first record with the id gets column 6 written;
\* with no such record nothing is written and nothing is reported.
update_description(sheet, location_id, description) ==
    IF MatchingSheetRows(sheet, location_id) = {} THEN sheet
    ELSE update_cell(sheet, Min(MatchingSheetRows(sheet, location_id)), 6,
                     description)

\* delete_location (data_store.py): the first record with the id is deleted;
\* with no such record nothing is deleted and nothing is reported.
ds_delete_location(sheet, location_id) ==
    IF MatchingSheetRows(sheet, location_id) = {} THEN sheet
    ELSE delete_rows(sheet, Min(MatchingSheetRows(sheet, location_id)))

----------------------------------------------------------------------------
(* Geocoder *)

\* The coordinates the provider finds for an address.
Coordinates(address) ==
    IF address = "1 Main St" THEN <<"35.47", "-97.51">>
    ELSE IF address = "2 Main St" THEN <<"35.52", "-97.53">>
    ELSE <<"35.00", "-97.00">>

\* geocode_address: the provider's coordinates, or (None, None) when it finds
\* nothing or raises.
GeocodeOutcomes(address) == {<<"None", "None">>, Coordinates(address)}

----------------------------------------------------------------------------
(* app.py callbacks *)

Form(name, address, desc, days, time_range) ==
    [name |-> name, address |-> address, desc |-> desc, days |-> days,
     time_range |-> time_range]

\* The add form as the layout creates it, and as a successful submit leaves it.
FreshForm == Form("None", "None", "None", <<>>, <<900, 1140>>)
ClearedForm == Form("", "", "", <<>>, <<900, 1140>>)

\* What the operator may have entered when Submit is clicked: two complete
\* forms (one without a description, one ending at the slider's maximum) and
\* forms with one required field missing.
AddForms ==
    { Form("Bar A", "1 Main St", "wells", <<Monday, Tuesday>>, <<900, 1140>>),
      Form("Bar B", "2 Main St", "None", <<Friday>>, <<1200, 1440>>),
      Form("", "1 Main St", "wells", <<Monday>>, <<900, 1140>>),
      Form("None", "1 Main St", "wells", <<Monday>>, <<900, 1140>>),
      Form("Bar A", "", "wells", <<Monday>>, <<900, 1140>>),
      Form("Bar A", "1 Main St", "wells", <<>>, <<900, 1140>>),
      Form("Bar A", "1 Main St", "wells", <<Monday>>, <<>>) }

\* Python truthiness of the values all([...]) tests.
TruthyText(v) == v # "None" /\ v # ""
TruthyList(v) == v # <<>>

NoTarget == [id |-> <<>>, desc |-> ""]

\* A callback run. op: the callback (for handle_table_actions, the button);
\* form, n_clicks, target: its inputs; geocoded: the geocoder's answers, one
\* per call; repo: the repository functions called; ret: the id
\* insert_location returned; feedback, fields: the alert and the form values
\* it output; pre_refresh: the counter it was handed.
Trace(op, outcome, form, n_clicks, geocoded, repo, ret, target, pre, feedback, fields) ==
    [op |-> op, outcome |-> outcome, form |-> form, n_clicks |-> n_clicks,
     geocoded |-> geocoded, repo |-> repo, ret |-> ret, target |-> target,
     pre_refresh |-> pre, feedback |-> feedback, fields |-> fields]

\* Rank of a name in code-point order, for sort_values("name").
NameRank(name) ==
    IF name = "" THEN 0 ELSE IF name = "Bar A" THEN 1 ELSE IF name = "Bar B" THEN 2
    ELSE 3

\* df.sort_values("name"): rows by name, equal names in frame order.
RECURSIVE sort_values_name(_)
sort_values_name(df) ==
    IF df = <<>> THEN <<>>
    ELSE LET k == CHOOSE i \in 1..Len(df) :
                      \A j \in 1..Len(df) :
                          \/ NameRank(df[i].name) < NameRank(df[j].name)
                          \/ (NameRank(df[i].name) = NameRank(df[j].name) /\ i <= j)
         IN <<df[k]>> \o sort_values_name(SubSeq(df, 1, k - 1) \o
                                          SubSeq(df, k + 1, Len(df)))

\* A return of add_location that follows no write: the alert, the form's
\* values and the refresh counter it outputs.
AddOutputs(feedback, fields, counter, outcome, form, n_clicks, geocoded, repo) ==
    /\ refresh_trigger' = counter
    /\ last' = Trace("add_location", outcome, form, n_clicks, geocoded, repo,
                     <<>>, NoTarget, refresh_trigger, feedback, fields)
    /\ UNCHANGED <<ws, manage_refresh, table>>

\* Mutant: the coordinates are handed over in the other order.
RowValues_swapped_coordinates(form, geo) ==
    LET start_time == minutes_to_time(form.time_range[1])
        end_time == minutes_to_time(form.time_range[2])
        days_str == Join(form.days, <<",">>)
    IN <<CellOf(form.name), CellOf(form.address), geo[2], geo[1],
         CellOf(form.desc), days_str, start_time, end_time>>

\* The dict add_location hands to insert_location, as the cells append_row
\* writes: the slider's endpoints as HH:MM, the days joined by commas.
RowValues(form, geo) ==
    LET start_time == minutes_to_time(form.time_range[1])
        end_time == minutes_to_time(form.time_range[2])
        days_str == Join(form.days, <<",">>)
    IN <<CellOf(form.name), CellOf(form.address), geo[1], geo[2],
         CellOf(form.desc), days_str, start_time, end_time>>

\* Mutant: the test for a failed lookup is the wrong way round.
GeocodeFailed_inverted(geo) == ~(geo[1] = "None" \/ geo[2] = "None")

\* Mutant: a failed lookup is not noticed.
GeocodeFailed_never(geo) == FALSE

\* if lat is None or lon is None
GeocodeFailed(geo) == geo[1] = "None" \/ geo[2] = "None"

\* Mutant: the days checklist is left out of the required fields.
AllRequired_without_days(form) ==
    /\ TruthyText(form.name) /\ TruthyText(form.address)
    /\ TruthyList(form.time_range)

\* all([name, address, days, time_range])
AllRequired(form) ==
    /\ TruthyText(form.name) /\ TruthyText(form.address)
    /\ TruthyList(form.days) /\ TruthyList(form.time_range)

\* add_location (app.py): the submit button's callback. n_clicks is None when
\* the callback runs for a freshly laid out form.
app_add_location ==
    \/ \* if n_clicks is None
       AddOutputs("", FreshForm, 0, "initial", FreshForm, <<>>, <<>>, <<>>)
    \/ \E form \in AddForms :
        LET n_clicks == <<1>>
            refresh_count == refresh_trigger
        IN
        IF ~AllRequired(form)
        THEN AddOutputs("warning: Please fill in all required fields.", form,
                        refresh_count, "validation_error", form, n_clicks,
                        <<>>, <<>>)
        ELSE \E geo \in GeocodeOutcomes(form.address) :
            IF GeocodeFailed(geo)
            THEN AddOutputs("danger: Could not find location.", form,
                            refresh_count, "geocode_error", form, n_clicks,
                            <<geo>>, <<>>)
            ELSE
              LET values == RowValues(form, geo)
                  ins == insert_location(ws, values)
              IN
              \/ \* insert_location raises
                 AddOutputs("danger: Error", form, refresh_count,
                            "storage_error", form, n_clicks, <<geo>>,
                            <<"insert_location">>)
              \/ /\ Len(ws) < MaxRows
                 /\ ws' = ins.ws
                 /\ refresh_trigger' = refresh_count + 1
                 /\ last' = Trace("add_location", "success", form, n_clicks,
                                  <<geo>>, <<"insert_location">>, <<ins.ret>>,
                                  NoTarget, refresh_count,
                                  "success: Location added successfully!",
                                  ClearedForm)
                 /\ UNCHANGED <<manage_refresh, table>>

\* The body of update_locations_table (app.py): the rows of the store,
\* sorted by name.
RenderedTable(sheet) == sort_values_name(load_locations(sheet))

\* update_locations_table (app.py) when the management page is laid out.
app_update_locations_table ==
    /\ table' = RenderedTable(ws)
    /\ last' = Trace("update_locations_table", "rendered", FreshForm, <<>>,
                     <<>>, <<"load_locations">>, <<>>, NoTarget, manage_refresh,
                     "", FreshForm)
    /\ UNCHANGED <<ws, refresh_trigger, manage_refresh>>

\* What the operator may have typed into a description box before Save.
DescriptionEdits == {"drafts"}

\* handle_table_actions (app.py): Save or Delete of a rendered row. The
\* description saved is the value of the row's text box. An output to
\* 'manage-refresh' makes update_locations_table render the table again.
\* n_clicks is the property of the triggering button: None on a button the
\* table has just laid out, a count on one the operator clicked.
handle_table_actions ==
    \E button \in {"save-btn", "delete-btn"}, k \in 1..Len(table), n_clicks \in {<<>>, <<1>>} :
    \E desc_value \in (IF button = "save-btn"
                       THEN DescriptionEdits \cup {table[k].description}
                       ELSE {table[k].description}) :
        LET location_id == table[k].id
            refresh_count == manage_refresh
            target == [id |-> <<location_id>>, desc |-> desc_value]
        IN
        /\ refresh_count < MaxRefresh
        /\ \/ \* the repository call raises
              /\ manage_refresh' = refresh_count
              /\ table' = RenderedTable(ws)
              /\ last' = Trace(button, "storage_error", FreshForm, n_clicks, <<>>,
                               <<IF button = "save-btn" THEN "update_description"
                                 ELSE "delete_location">>,
                               <<>>, target, refresh_count, "danger: Error",
                               FreshForm)
              /\ UNCHANGED ws
           \/ /\ button = "save-btn"
              /\ IF desc_value # "None" THEN
                    /\ ws' = update_description(ws, location_id, desc_value)
                    /\ manage_refresh' = refresh_count + 1
                    /\ table' = RenderedTable(ws')
                    /\ last' = Trace(button, "success", FreshForm, n_clicks, <<>>,
                                     <<"update_description">>, <<>>, target,
                                     refresh_count,
                                     "success: Description updated successfully!",
                                     FreshForm)
                 ELSE
                    /\ last' = Trace(button, "no_update", FreshForm, n_clicks, <<>>,
                                     <<>>, <<>>, target, refresh_count, "",
                                     FreshForm)
                    /\ UNCHANGED <<ws, manage_refresh, table>>
           \/ /\ button = "delete-btn"
              /\ ws' = ds_delete_location(ws, location_id)
              /\ manage_refresh' = refresh_count + 1
              /\ table' = RenderedTable(ws')
              /\ last' = Trace(button, "success", FreshForm, n_clicks, <<>>,
                               <<"delete_location">>, <<>>, target, refresh_count,
                               "success: Location deleted successfully!",
                               FreshForm)
        /\ UNCHANGED refresh_trigger

----------------------------------------------------------------------------
(* Relational repository (db.py) *)

Weekdays ==
    Join(<<Monday, Tuesday, <<"W", "e", "d", "n", "e", "s", "d", "a", "y">>,
           <<"T", "h", "u", "r", "s", "d", "a", "y">>, Friday>>, <<",">>)

\* init_db on an empty table: the sample rows, with ids 1, 2, 3.
SampleData ==
    << Row(1, "The Pump Bar", "2425 N Walker Ave, Oklahoma City, OK",
           "35.4945", "-97.5264", "$3 wells, $4 drafts", Weekdays,
           HHMM(15, 0), HHMM(19, 0)),
       Row(2, "Fassler Hall", "7 E Sheridan Ave, Oklahoma City, OK",
           "35.4676", "-97.5164", "$5 beer & brats", Weekdays,
           HHMM(16, 0), HHMM(18, 0)),
       Row(3, "Empire Slice House", "4029 N Western Ave, Oklahoma City, OK",
           "35.5153", "-97.5347", "$2 off pizzas, $1 off drinks",
           Join(<<Monday, Tuesday, <<"W", "e", "d", "n", "e", "s", "d", "a", "y">>,
                  <<"T", "h", "u", "r", "s", "d", "a", "y">>>>, <<",">>),
           HHMM(15, 0), HHMM(18, 0)) >>

\* Mutant: the SELECT has no WHERE clause, fetchone returns the first row.
get_location_by_id_no_where(rows, location_id) ==
    IF rows = <<>> THEN <<>> ELSE <<Head(rows)>>

\* get_location_by_id: <<>> for None, else the row as a dict.
get_location_by_id(rows, location_id) ==
    SelectSeq(rows, LAMBDA r : r.id = location_id)

\* get_all_locations: SELECT * FROM locations ORDER BY id DESC
RECURSIVE Reverse(_)
Reverse(q) == IF q = <<>> THEN <<>> ELSE Reverse(Tail(q)) \o <<Head(q)>>

get_all_locations(rows) == Reverse(rows)

\* The row UPDATE ... SET ... WHERE id=? leaves in place of row r.
UpdatedRow(r, name, address, lat, lon, description, days, start_time, end_time) ==
    Row(r.id, name, address, lat, lon, description, days, start_time, end_time)

\* Mutant: the UPDATE statement does not set lat and lon.
update_location_keeps_coordinates(rows, location_id, name, address, lat, lon, description, days, start_time, end_time) ==
    [k \in 1..Len(rows) |->
        IF rows[k].id = location_id
        THEN UpdatedRow(rows[k], name, address, rows[k].lat, rows[k].lon,
                        description, days, start_time, end_time)
        ELSE rows[k]]

\* update_location (db.py): every row with the id gets the eight columns
\* set; the call succeeds whether or not a row has the id.
update_location(rows, location_id, name, address, lat, lon, description, days, start_time, end_time) ==
    [k \in 1..Len(rows) |->
        IF rows[k].id = location_id
        THEN UpdatedRow(rows[k], name, address, lat, lon, description, days,
                        start_time, end_time)
        ELSE rows[k]]

\* delete_location (db.py): DELETE FROM locations WHERE id=?
db_delete_location(rows, location_id) ==
    SelectSeq(rows, LAMBDA r : r.id # location_id)

----------------------------------------------------------------------------
(* admin.py callbacks *)

\* The successful writes the database file is followed through: inserts by
\* app2.py, updates and deletes by admin.py.
MaxWrites == 2

DbWrites == (db_seq - Len(SampleData)) + admin_refresh

EditForm(name, address, description, days, start_time, end_time) ==
    [name |-> name, address |-> address, description |-> description,
     days |-> days, start_time |-> start_time, end_time |-> end_time]

\* The edit modal's inputs when it is closed.
EmptyEditForm == EditForm("", "", "", <<>>, <<>>, <<>>)

\* What the operator does to the modal's inputs before Save: nothing, a new
\* name, a new address, the name cleared, or the two times typed over.
EditChanges == {"same", "rename", "move", "clear_name", "retime"}

Edited(form, change) ==
    IF change = "rename" THEN [form EXCEPT !.name = "Renamed"]
    ELSE IF change = "move" THEN [form EXCEPT !.address = "2 Main St"]
    ELSE IF change = "clear_name" THEN [form EXCEPT !.name = ""]
    ELSE IF change = "retime"
    THEN [form EXCEPT !.start_time = HHMM(20, 0), !.end_time = HHMM(18, 0)]
    ELSE form

NoEdit == [id |-> <<>>, form |-> EmptyEditForm]

\* An admin callback run. op: the callback; edit: the State values of
\* save_edited_location (the id and the six inputs); button: the id of the
\* triggering row button; value: the n_clicks of the delete button or of
\* 'edit-save'; geocoded: the geocoder's answers, one per call; updates: the
\* arguments of each update_location call; deletes: the argument of each
\* delete_location call; found: what get_location_by_id returned.
AdminTrace(op, outcome, edit, button, value, found, geocoded, updates, deletes, feedback, pre) ==
    [op |-> op, outcome |-> outcome, edit |-> edit, button |-> button,
     value |-> value,
     found |-> found, geocoded |-> geocoded, updates |-> updates,
     deletes |-> deletes, feedback |-> feedback, pre_refresh |-> pre]

\* The body of update_locations_table (admin.py): a row of buttons per
\* location, newest first.
AdminRendered(rows) ==
    [k \in 1..Len(rows) |-> get_all_locations(rows)[k].id]

\* delete_location_callback (admin.py): the delete button of a rendered row.
\* An output to 'admin-refresh-trigger' renders the table again.
delete_location_callback ==
    \E k \in 1..Len(admin_table), n_clicks \in {<<>>, <<1>>} :
        LET location_id == admin_table[k]
            refresh_count == admin_refresh
        IN
        \/ \* delete_location returns (False, message)
           /\ admin_refresh' = refresh_count
           /\ admin_table' = AdminRendered(db)
           /\ admin_last' = AdminTrace("delete_location_callback", "storage_error",
                                       NoEdit, <<location_id>>, n_clicks, <<>>,
                                       <<>>, <<>>, <<location_id>>, "",
                                       refresh_count)
           /\ UNCHANGED <<db, edit_modal, edit_location_id, edit_form>>
        \/ /\ DbWrites < MaxWrites
           /\ db' = db_delete_location(db, location_id)
           /\ admin_refresh' = refresh_count + 1
           /\ admin_table' = AdminRendered(db')
           /\ admin_last' = AdminTrace("delete_location_callback", "success",
                                       NoEdit, <<location_id>>, n_clicks, <<>>,
                                       <<>>, <<>>, <<location_id>>, "",
                                       refresh_count)
           /\ UNCHANGED <<edit_modal, edit_location_id, edit_form>>

\* toggle_edit_modal (admin.py): an edit button opens the modal on the row's
\* stored values; Cancel closes and clears it.
toggle_edit_modal ==
    \/ \* 'edit-cancel'
       /\ edit_modal' = FALSE
       /\ edit_form' = EmptyEditForm
       /\ edit_location_id' = <<>>
       /\ admin_last' = AdminTrace("toggle_edit_modal", "cancel", NoEdit, <<>>,
                                   <<>>, <<>>, <<>>, <<>>, <<>>, "",
                                   admin_refresh)
       /\ UNCHANGED <<db, admin_refresh, admin_table>>
    \/ \E k \in 1..Len(admin_table) :
        LET location_id == admin_table[k]
            location == get_location_by_id(db, location_id)
        IN
        /\ IF location # <<>> THEN
              /\ edit_modal' = TRUE
              /\ edit_form' = EditForm(location[1].name, location[1].address,
                                       location[1].description, location[1].days,
                                       location[1].start_time,
                                       location[1].end_time)
              /\ edit_location_id' = <<location_id>>
           ELSE
              /\ edit_modal' = FALSE
              /\ edit_form' = EmptyEditForm
              /\ edit_location_id' = <<>>
        /\ admin_last' = AdminTrace("toggle_edit_modal", "edit", NoEdit,
                                    <<location_id>>, <<>>, location, <<>>,
                                    <<>>, <<>>,
                                    "", admin_refresh)
        /\ UNCHANGED <<db, admin_refresh, admin_table>>

\* A return of save_edited_location that follows no write: the alert, the
\* modal left open and the refresh counter handed in.
SaveOutputs(outcome, edit, n_clicks, found, geocoded, updates, feedback) ==
    /\ edit_modal' = TRUE
    /\ admin_refresh' = admin_refresh
    /\ admin_table' = AdminRendered(db)
    /\ admin_last' = AdminTrace("save_edited_location", outcome, edit, <<>>,
                                n_clicks, found, geocoded, updates, <<>>, feedback,
                                admin_refresh)
    /\ UNCHANGED <<db, edit_location_id, edit_form>>

\* all([name, address, days, start_time, end_time])
AllEditRequired(form) ==
    /\ TruthyText(form.name) /\ TruthyText(form.address)
    /\ Truthy(form.days) /\ Truthy(form.start_time) /\ Truthy(form.end_time)

\* Mutant: the geocoder is consulted only when the address is unchanged.
AddressChanged_inverted(address, existing) == address = existing.address

\* Mutant: the address is never taken as changed.
AddressChanged_never(address, existing) == FALSE

\* if address != existing['address']
AddressChanged(address, existing) == address # existing.address

\* save_edited_location (admin.py): Save in the edit modal, with the inputs
\* as the operator left them.
save_edited_location ==
    \E n_clicks \in {<<>>, <<1>>}, change \in EditChanges :
        LET location_id == edit_location_id
            form == Edited(edit_form, change)
            edit == [id |-> location_id, form |-> form]
            refresh_count == admin_refresh
        IN
        /\ edit_modal
        /\ IF n_clicks = <<>> \/ location_id = <<>> \/ location_id = <<0>>
           THEN SaveOutputs("no_click", edit, n_clicks, <<>>, <<>>, <<>>, "")
           ELSE IF ~AllEditRequired(form)
           THEN SaveOutputs("validation_error", edit, n_clicks, <<>>, <<>>, <<>>,
                            "warning: Please fill in all required fields.")
           ELSE
             LET existing == get_location_by_id(db, location_id[1])
             IN
             IF existing = <<>>
             THEN SaveOutputs("not_found", edit, n_clicks, existing, <<>>, <<>>,
                              "danger: Location not found.")
             ELSE
               \E geo \in (IF AddressChanged(form.address, existing[1])
                           THEN GeocodeOutcomes(form.address)
                           ELSE {<<existing[1].lat, existing[1].lon>>}) :
                 LET geocoded == IF AddressChanged(form.address, existing[1])
                                 THEN <<[address |-> form.address, result |-> geo]>>
                                 ELSE <<>>
                     lat == geo[1]
                     lon == geo[2]
                     call == Row(location_id[1], form.name, form.address, lat,
                                 lon, form.description, form.days,
                                 form.start_time, form.end_time)
                 IN
                 IF AddressChanged(form.address, existing[1])
                    /\ GeocodeFailed(<<lat, lon>>)
                 THEN SaveOutputs("geocode_error", edit, n_clicks, existing, geocoded,
                                  <<>>, "warning: Could not geocode new address.")
                 ELSE
                   \/ \* update_location returns (False, message)
                      SaveOutputs("storage_error", edit, n_clicks, existing, geocoded,
                                  <<call>>, "danger: Error")
                   \/ /\ DbWrites < MaxWrites
                      /\ db' = update_location(db, location_id[1], form.name,
                                               form.address, lat, lon,
                                               form.description, form.days,
                                               form.start_time, form.end_time)
                      /\ edit_modal' = FALSE
                      /\ admin_refresh' = refresh_count + 1
                      /\ admin_table' = AdminRendered(db')
                      /\ admin_last' = AdminTrace("save_edited_location",
                                                  "success", edit, <<>>,
                                                  n_clicks, existing, geocoded,
                                                  <<call>>,
                                                  <<>>,
                                                  "success: Location updated successfully!",
                                                  refresh_count)
                      /\ UNCHANGED <<edit_location_id, edit_form>>

----------------------------------------------------------------------------
(* Specification of the time codec: a string is parsed and formatted back, *)
(* or a slider value is formatted for display.                             *)

CodecInit ==
    /\ \/ c_pc = "input" /\ c_str \in ValidTimeStrings \cup OddTimeStrings
          /\ c_min = [ok |-> FALSE, val |-> 0]
       \/ c_pc = "slider" /\ c_str = NoneStr
          /\ c_min \in {[ok |-> TRUE, val |-> v] : v \in SliderValues}
    /\ c_out = NoneStr

CodecParse ==
    /\ c_pc = "input"
    /\ c_min' = time_to_minutes(c_str)
    /\ c_pc' = "parsed"
    /\ UNCHANGED <<c_str, c_out>>

CodecFormat ==
    /\ c_pc = "parsed"
    /\ c_min.ok
    /\ c_out' = minutes_to_time(c_min.val)
    /\ c_pc' = "formatted"
    /\ UNCHANGED <<c_str, c_min>>

\* update_time_display: the slider's endpoints are shown as HH:MM.
update_time_display ==
    /\ c_pc = "slider"
    /\ c_out' = minutes_to_time(c_min.val)
    /\ c_pc' = "displayed"
    /\ UNCHANGED <<c_str, c_min>>

FilterIdle ==
    /\ f_pc = "loaded" /\ f_locs = <<>> /\ f_day = All /\ f_time = <<>>
    /\ f_out = <<>>

CodecIdle ==
    /\ c_pc = "input" /\ c_str = <<>> /\ c_min = [ok |-> FALSE, val |-> 0]
    /\ c_out = NoneStr

SheetInit ==
    /\ ws = <<>>
    /\ refresh_trigger = 0
    /\ manage_refresh = 0
    /\ table = <<>>
    /\ last = Trace("layout", "initial", FreshForm, <<>>, <<>>, <<>>, <<>>,
                    NoTarget, 0, "", FreshForm)

\* The repository on an empty worksheet (only the header row).
RepoInit ==
    /\ r_ws = <<>>
    /\ r_retired = {}
    /\ r_last = [op |-> "none", arg |-> <<>>, ret |-> <<>>, pre |-> <<>>]

\* admin.py after start-up: init_db has filled the empty table and the
\* layout's first update_locations_table has rendered it.
AdminInit ==
    /\ db = SampleData
    /\ admin_refresh = 0
    /\ admin_table = AdminRendered(SampleData)
    /\ edit_modal = FALSE
    /\ edit_location_id = <<>>
    /\ edit_form = EmptyEditForm
    /\ admin_last = AdminTrace("layout", "initial", NoEdit, <<>>, <<>>, <<>>,
                               <<>>, <<>>, <<>>, "", 0)

\* Both repositories empty: a worksheet with its header row only, a table
\* just created.
BackendInit ==
    /\ b_ws = <<>>
    /\ b_db = <<>>
    /\ b_seq = 0
    /\ b_last = [op |-> "none", arg |-> <<>>, sheet_id |-> <<>>, db_id |-> <<>>]

\* The admin sessions (browser tabs) saving edits against one database.
Sessions == {1, 2}

\* The addresses typed into edit-address.
Addresses == {"1 Main St", "2 Main St", "3 Main St"}

NoSave == [id |-> 0, name |-> "", address |-> ""]

\* Two rows, each added through the form: its coordinates are the
\* geocoder's for its address.
SessionInit ==
    /\ e_db = << Row(1, "The Pump Bar", "1 Main St", Coordinates("1 Main St")[1],
                     Coordinates("1 Main St")[2], "$3 wells", Weekdays,
                     HHMM(15, 0), HHMM(19, 0)),
                 Row(2, "Fassler Hall", "2 Main St", Coordinates("2 Main St")[1],
                     Coordinates("2 Main St")[2], "$5 beer", Weekdays,
                     HHMM(16, 0), HHMM(18, 0)) >>
    /\ e_pc = [s \in Sessions |-> "Idle"]
    /\ e_form = [s \in Sessions |-> NoSave]
    /\ e_existing = [s \in Sessions |-> <<>>]
    /\ e_coords = [s \in Sessions |-> <<>>]
    /\ e_last = [session |-> 0, stale |-> FALSE, geocoded |-> FALSE]

\* app2.py after init_db on an empty table, the map drawn with the filters'
\* initial values ('All', '').
MapInit ==
    /\ m_db = SampleData
    /\ m_seq = Len(SampleData)
    /\ m_checked = [k \in 1..Len(SampleData) |-> <<>>]
    /\ m_day = All
    /\ m_time = <<>>
    /\ m_shown = {SampleData[k].id : k \in 1..Len(SampleData)}

\* The values ADMIN_PASSWORD can have in the server's environment: unset,
\* empty, or a password.
Secrets == {"None", "", "s3cret", "hunter2"}

\* The values of 'password-input': None until the operator types, then what
\* was typed.
Passwords == {"None", "", "s3cret", "hunter2", "guess"}

GateTrace(op, password, pathname) ==
    [op |-> op, password |-> password, pathname |-> pathname]

\* The layout: 'auth-store' False, the map page at "/".
GateInit ==
    /\ g_secret \in Secrets
    /\ g_auth = FALSE
    /\ g_pathname = "/"
    /\ g_page = "map_page"
    /\ g_clicks = 0
    /\ g_last = GateTrace("layout", "None", "/")

\* The gate under the other specifications: one environment.
GateIdle ==
    /\ g_secret = "None"
    /\ g_auth = FALSE
    /\ g_pathname = "/"
    /\ g_page = "map_page"
    /\ g_clicks = 0
    /\ g_last = GateTrace("layout", "None", "/")

\* Two server processes on one worksheet.
Writers == {1, 2}

\* No insert_location call under way, on an empty worksheet.
RaceInit ==
    /\ w_ws = <<>>
    /\ w_pc = [w \in Writers |-> "idle"]
    /\ w_existing = [w \in Writers |-> <<>>]
    /\ w_row = [w \in Writers |-> <<>>]
    /\ w_ret = [w \in Writers |-> <<>>]

\* No add_location run under way, on an empty worksheet.
SubmitInit ==
    /\ s_pc = "Idle"
    /\ s_form = FreshForm
    /\ s_geo = <<>>
    /\ s_log = <<>>
    /\ s_outcome = "none"
    /\ s_ws = <<>>
    /\ s_refresh = 0

\* app2.py after start-up: init_db's three inserts have left
\* sqlite_sequence at 3.
App2Init ==
    /\ db_seq = Len(SampleData)
    /\ app2_refresh = 0

CodecNext ==
    \/ CodecParse /\ UNCHANGED <<filterVars, sheetVars, adminVars, repoVars, app2Vars, submitVars, raceVars, backendVars, sessionVars, mapVars, gateVars>>
    \/ CodecFormat /\ UNCHANGED <<filterVars, sheetVars, adminVars, repoVars, app2Vars, submitVars, raceVars, backendVars, sessionVars, mapVars, gateVars>>
    \/ update_time_display /\ UNCHANGED <<filterVars, sheetVars, adminVars, repoVars, app2Vars, submitVars, raceVars, backendVars, sessionVars, mapVars, gateVars>>

CodecStart ==
    CodecInit /\ FilterIdle /\ SheetInit /\ AdminInit /\ RepoInit /\ App2Init
    /\ SubmitInit /\ RaceInit
    /\ BackendInit
    /\ SessionInit
    /\ MapInit /\ GateIdle

CodecSpec == CodecStart /\ [][CodecNext]_vars

----------------------------------------------------------------------------
(* Specification of the filter: the repository returns a frame and         *)
(* update_map filters it by the dropdowns' values.                         *)

FilterInit ==
    /\ f_pc = "loaded"
    /\ f_locs \in FilterFrames
    /\ f_day = All /\ f_time = <<>>
    /\ f_out = <<>>

\* update_map: df = get_locations(day, time if time else None)
update_map_filter ==
    \E day \in DaySelectors, time \in TimeSelectors :
        /\ f_day' = day
        /\ f_time' = time
        /\ f_out' = get_locations_df(f_locs, day,
                                     IF Truthy(time) THEN time ELSE NoneStr)
        /\ f_pc' = "shown"
        /\ UNCHANGED f_locs

FilterNext ==
    update_map_filter /\ UNCHANGED <<codecVars, sheetVars, adminVars, repoVars, app2Vars, submitVars, raceVars, backendVars, sessionVars, mapVars, gateVars>>

FilterStart ==
    FilterInit /\ CodecIdle /\ SheetInit /\ AdminInit /\ RepoInit /\ App2Init
    /\ SubmitInit /\ RaceInit
    /\ BackendInit
    /\ SessionInit
    /\ MapInit /\ GateIdle

FilterSpec == FilterStart /\ [][FilterNext]_vars

----------------------------------------------------------------------------
(* Specification of app.py on the spreadsheet repository: the operator     *)
(* submits the add form, the management table is rendered, and rendered    *)
(* rows are saved or deleted.                                              *)

SheetNext ==
    \/ app_add_location /\ UNCHANGED <<codecVars, filterVars, adminVars, repoVars, app2Vars, submitVars, raceVars, backendVars, sessionVars, mapVars, gateVars>>
    \/ app_update_locations_table /\ UNCHANGED <<codecVars, filterVars, adminVars, repoVars, app2Vars, submitVars, raceVars, backendVars, sessionVars, mapVars, gateVars>>
    \/ handle_table_actions /\ UNCHANGED <<codecVars, filterVars, adminVars, repoVars, app2Vars, submitVars, raceVars, backendVars, sessionVars, mapVars, gateVars>>

SheetStart ==
    SheetInit /\ CodecIdle /\ FilterIdle /\ AdminInit /\ RepoInit /\ App2Init
    /\ SubmitInit /\ RaceInit
    /\ BackendInit
    /\ SessionInit
    /\ MapInit /\ GateIdle

SheetSpec == SheetStart /\ [][SheetNext]_vars

----------------------------------------------------------------------------
(* Specification of the spreadsheet repository under any sequence of its   *)
(* calls, one at a time.                                                    *)

\* The ids a call may name: those the bounded store can have issued, and one
\* it has not.
MaxId == 3

\* The rows add_location hands to insert_location.
RepoValues ==
    { <<"Bar A", "1 Main St", "35.47", "-97.51", "wells",
        Join(<<Monday, Tuesday>>, <<",">>), HHMM(15, 0), HHMM(19, 0)>>,
      <<"Bar B", "2 Main St", "35.52", "-97.53", "",
        Friday, HHMM(20, 0), HHMM(24, 0)>> }

repo_insert_location ==
    \E values \in RepoValues :
        LET ins == insert_location(r_ws, values)
        IN
        /\ Len(r_ws) < MaxRows
        /\ NextId(r_ws) <= MaxId
        /\ r_ws' = ins.ws
        /\ r_last' = [op |-> "insert_location", arg |-> <<>>,
                      ret |-> <<ins.ret>>, pre |-> r_ws]
        /\ UNCHANGED r_retired

repo_update_description ==
    \E location_id \in 1..(MaxId + 1), description \in DescriptionEdits :
        /\ r_ws' = update_description(r_ws, location_id, description)
        /\ r_last' = [op |-> "update_description", arg |-> <<location_id>>,
                      ret |-> <<>>, pre |-> r_ws]
        /\ UNCHANGED r_retired

repo_delete_location ==
    \E location_id \in 1..(MaxId + 1) :
        /\ r_ws' = ds_delete_location(r_ws, location_id)
        /\ r_retired' = r_retired \cup (StoredIds(r_ws) \ StoredIds(r_ws'))
        /\ r_last' = [op |-> "delete_location", arg |-> <<location_id>>,
                      ret |-> <<>>, pre |-> r_ws]

RepoNext ==
    \/ repo_insert_location /\ UNCHANGED <<codecVars, filterVars, sheetVars, adminVars, app2Vars, submitVars, raceVars, backendVars, sessionVars, mapVars, gateVars>>
    \/ repo_update_description /\ UNCHANGED <<codecVars, filterVars, sheetVars, adminVars, app2Vars, submitVars, raceVars, backendVars, sessionVars, mapVars, gateVars>>
    \/ repo_delete_location /\ UNCHANGED <<codecVars, filterVars, sheetVars, adminVars, app2Vars, submitVars, raceVars, backendVars, sessionVars, mapVars, gateVars>>

RepoStart ==
    RepoInit /\ CodecIdle /\ FilterIdle /\ SheetInit /\ AdminInit /\ App2Init
    /\ SubmitInit /\ RaceInit
    /\ BackendInit
    /\ SessionInit
    /\ MapInit /\ GateIdle

RepoSpec == RepoStart /\ [][RepoNext]_vars

----------------------------------------------------------------------------
(* Specification of one add_location run at a time, statement by statement: *)
(* the callback is a synchronous function, so a run that has started goes   *)
(* on to its return.                                                         *)

\* The callback is entered with a click and the form's State values.
add_submit ==
    \E form \in AddForms :
        /\ s_pc = "Idle"
        /\ s_pc' = "Validating"
        /\ s_form' = form
        /\ s_geo' = <<>>
        /\ s_log' = <<>>
        /\ s_outcome' = "pending"
        /\ UNCHANGED <<s_ws, s_refresh>>

\* The callback is entered with n_clicks None and returns at once.
add_no_click ==
    /\ s_pc = "Idle"
    /\ s_form' = FreshForm
    /\ s_geo' = <<>>
    /\ s_log' = <<>>
    /\ s_outcome' = "initial"
    /\ s_refresh' = 0
    /\ UNCHANGED <<s_pc, s_ws>>

\* if not all([name, address, days, time_range]): return
add_validate ==
    /\ s_pc = "Validating"
    /\ IF AllRequired(s_form)
       THEN s_pc' = "Geocoding" /\ UNCHANGED s_outcome
       ELSE s_pc' = "Idle" /\ s_outcome' = "validation_error"
    /\ UNCHANGED <<s_form, s_geo, s_log, s_ws, s_refresh>>

\* Mutant: the run goes on to the insert whatever the geocoder answered.
AfterGeocoding_always_persists(geo) == "Persisting"

\* if lat is None or lon is None: return
AfterGeocoding(geo) == IF GeocodeFailed(geo) THEN "Idle" ELSE "Persisting"

\* lat, lon = geocode_address(address), and the test of the answer
add_geocode ==
    \E geo \in GeocodeOutcomes(s_form.address) :
        /\ s_pc = "Geocoding"
        /\ s_log' = Append(s_log, "geocode")
        /\ s_geo' = <<geo>>
        /\ s_pc' = AfterGeocoding(geo)
        /\ s_outcome' = (IF s_pc' = "Idle" THEN "geocode_error" ELSE s_outcome)
        /\ UNCHANGED <<s_form, s_ws, s_refresh>>

\* The try block: insert_location, then the success return, or the except
\* branch's return.
add_persist ==
    /\ s_pc = "Persisting"
    /\ s_log' = Append(s_log, "insert")
    /\ s_pc' = "Idle"
    /\ \/ \* insert_location raises
          /\ s_outcome' = "storage_error"
          /\ UNCHANGED <<s_ws, s_refresh>>
       \/ /\ Len(s_ws) < MaxRows
          /\ s_ws' = insert_location(s_ws, RowValues(s_form, s_geo[1])).ws
          /\ s_refresh' = s_refresh + 1
          /\ s_outcome' = "success"
    /\ UNCHANGED <<s_form, s_geo>>

\* A statement of a run under way.
add_step ==
    /\ add_validate \/ add_geocode \/ add_persist
    /\ UNCHANGED <<codecVars, filterVars, sheetVars, adminVars, app2Vars, repoVars, raceVars, backendVars, sessionVars, mapVars, gateVars>>

SubmitNext ==
    \/ add_submit /\ UNCHANGED <<codecVars, filterVars, sheetVars, adminVars, app2Vars, repoVars, raceVars, backendVars, sessionVars, mapVars, gateVars>>
    \/ add_no_click /\ UNCHANGED <<codecVars, filterVars, sheetVars, adminVars, app2Vars, repoVars, raceVars, backendVars, sessionVars, mapVars, gateVars>>
    \/ add_validate /\ UNCHANGED <<codecVars, filterVars, sheetVars, adminVars, app2Vars, repoVars, raceVars, backendVars, sessionVars, mapVars, gateVars>>
    \/ add_geocode /\ UNCHANGED <<codecVars, filterVars, sheetVars, adminVars, app2Vars, repoVars, raceVars, backendVars, sessionVars, mapVars, gateVars>>
    \/ add_persist /\ UNCHANGED <<codecVars, filterVars, sheetVars, adminVars, app2Vars, repoVars, raceVars, backendVars, sessionVars, mapVars, gateVars>>

SubmitStart ==
    SubmitInit /\ CodecIdle /\ FilterIdle /\ SheetInit /\ AdminInit /\ RepoInit
    /\ App2Init /\ RaceInit
    /\ BackendInit
    /\ SessionInit
    /\ MapInit /\ GateIdle

SubmitSpec == SubmitStart /\ [][SubmitNext]_vars /\ WF_vars(add_step)

----------------------------------------------------------------------------
(* Specification of insert_location called by two writers at once: the      *)
(* read of the records and the append of the row are separate requests to   *)
(* the spreadsheet service.                                                  *)

\* Mutant: the id is taken from the sheet as it is when the row is appended.
IdFor_at_append(existing, sheet) == NextId(sheet)

\* next_id = max([r["id"] for r in existing], default=0) + 1
IdFor(existing, sheet) == NextId(existing)

\* existing = ws.get_all_records()
insert_read(w) ==
    \E values \in RepoValues :
        /\ w_pc[w] \in {"idle", "appended"}
        /\ Len(w_ws) < MaxRows
        /\ w_pc' = [w_pc EXCEPT ![w] = "read"]
        /\ w_existing' = [w_existing EXCEPT ![w] = w_ws]
        /\ w_row' = [w_row EXCEPT ![w] = values]
        /\ w_ret' = [w_ret EXCEPT ![w] = <<>>]
        /\ UNCHANGED w_ws

\* next_id = ...; ws.append_row(...); return next_id
insert_append(w) ==
    LET next_id == IdFor(w_existing[w], w_ws)
    IN
    /\ w_pc[w] = "read"
    /\ w_ws' = Append(w_ws, <<next_id>> \o w_row[w])
    /\ w_ret' = [w_ret EXCEPT ![w] = <<next_id>>]
    /\ w_pc' = [w_pc EXCEPT ![w] = "appended"]
    /\ UNCHANGED <<w_existing, w_row>>

RaceNext ==
    \/ \E w \in Writers : insert_read(w) /\ UNCHANGED <<codecVars, filterVars, sheetVars, adminVars, app2Vars, repoVars, submitVars, backendVars, sessionVars, mapVars, gateVars>>
    \/ \E w \in Writers : insert_append(w) /\ UNCHANGED <<codecVars, filterVars, sheetVars, adminVars, app2Vars, repoVars, submitVars, backendVars, sessionVars, mapVars, gateVars>>

RaceStart ==
    RaceInit /\ CodecIdle /\ FilterIdle /\ SheetInit /\ AdminInit /\ RepoInit
    /\ App2Init /\ SubmitInit /\ BackendInit /\ SessionInit /\ MapInit /\ GateIdle
    /\ MapInit /\ GateIdle
    /\ SessionInit
    /\ MapInit /\ GateIdle

RaceSpec == RaceStart /\ [][RaceNext]_vars

----------------------------------------------------------------------------
(* Specification of the two repositories side by side: every insert and     *)
(* every delete is applied to both.                                          *)

\* id INTEGER PRIMARY KEY AUTOINCREMENT: one more than the highest id the
\* table has ever held.
AutoincrementId(rows, seq) == seq + 1

\* add_location (db.py): INSERT of the eight columns.
db_add_location(rows, seq, values) ==
    LET new_id == AutoincrementId(rows, seq)
    IN [db |-> Append(rows, Row(new_id, values[1], values[2], values[3],
                                values[4], values[5], values[6], values[7],
                                values[8])),
        seq |-> new_id]

both_insert ==
    \E values \in RepoValues :
        LET ins == insert_location(b_ws, values)
            add == db_add_location(b_db, b_seq, values)
        IN
        /\ Len(b_ws) < MaxRows
        /\ b_seq < MaxId
        /\ b_ws' = ins.ws
        /\ b_db' = add.db
        /\ b_seq' = add.seq
        /\ b_last' = [op |-> "insert", arg |-> <<>>, sheet_id |-> <<ins.ret>>,
                      db_id |-> <<add.seq>>]

both_delete ==
    \E location_id \in 1..MaxId :
        /\ b_ws' = ds_delete_location(b_ws, location_id)
        /\ b_db' = db_delete_location(b_db, location_id)
        /\ b_last' = [op |-> "delete", arg |-> <<location_id>>,
                      sheet_id |-> <<>>, db_id |-> <<>>]
        /\ UNCHANGED b_seq

BackendNext ==
    \/ both_insert /\ UNCHANGED <<codecVars, filterVars, sheetVars, adminVars, app2Vars, repoVars, submitVars, raceVars, sessionVars, mapVars, gateVars>>
    \/ both_delete /\ UNCHANGED <<codecVars, filterVars, sheetVars, adminVars, app2Vars, repoVars, submitVars, raceVars, sessionVars, mapVars, gateVars>>

BackendStart ==
    BackendInit /\ CodecIdle /\ FilterIdle /\ SheetInit /\ AdminInit /\ RepoInit
    /\ App2Init /\ SubmitInit /\ RaceInit /\ SessionInit
    /\ MapInit /\ GateIdle

BackendSpec == BackendStart /\ [][BackendNext]_vars

----------------------------------------------------------------------------
(* Specification of save_edited_location run by two sessions, a step per   *)
(* database statement and geocoder call.                                    *)

\* Save clicked, the required inputs filled:
\* existing = get_location_by_id(location_id)
save_read(s) ==
    \E location_id \in {1, 2}, name \in {"Renamed"}, address \in Addresses :
        LET existing == get_location_by_id(e_db, location_id)
        IN
        /\ e_pc[s] = "Idle"
        /\ e_form' = [e_form EXCEPT ![s] = [id |-> location_id, name |-> name,
                                            address |-> address]]
        /\ e_existing' = [e_existing EXCEPT ![s] = existing]
        /\ e_pc' = [e_pc EXCEPT ![s] = IF existing = <<>> THEN "Idle" ELSE "Read"]
        /\ UNCHANGED <<e_db, e_coords, e_last>>

\* if address != existing['address']: lat, lon = geocode_address(address)
\* else: lat, lon = existing['lat'], existing['lon']
save_resolve(s) ==
    /\ e_pc[s] = "Read"
    /\ IF AddressChanged(e_form[s].address, e_existing[s][1])
       THEN \E geo \in GeocodeOutcomes(e_form[s].address) :
               IF GeocodeFailed(geo)
               THEN /\ e_pc' = [e_pc EXCEPT ![s] = "Idle"]
                    /\ e_form' = [e_form EXCEPT ![s] = NoSave]
                    /\ e_existing' = [e_existing EXCEPT ![s] = <<>>]
                    /\ UNCHANGED e_coords
               ELSE /\ e_pc' = [e_pc EXCEPT ![s] = "Resolved"]
                    /\ e_coords' = [e_coords EXCEPT ![s] = geo]
                    /\ UNCHANGED <<e_form, e_existing>>
       ELSE /\ e_pc' = [e_pc EXCEPT ![s] = "Resolved"]
            /\ e_coords' = [e_coords EXCEPT ![s] = <<e_existing[s][1].lat,
                                                     e_existing[s][1].lon>>]
            /\ UNCHANGED <<e_form, e_existing>>
    /\ UNCHANGED <<e_db, e_last>>

\* update_location(location_id, name, address, lat, lon, ...)
save_write(s) ==
    /\ e_pc[s] = "Resolved"
    /\ e_db' = update_location(e_db, e_form[s].id, e_form[s].name,
                               e_form[s].address, e_coords[s][1], e_coords[s][2],
                               e_existing[s][1].description, e_existing[s][1].days,
                               e_existing[s][1].start_time, e_existing[s][1].end_time)
    /\ e_last' = [session |-> s,
                  stale |-> get_location_by_id(e_db, e_form[s].id) # e_existing[s],
                  geocoded |-> AddressChanged(e_form[s].address, e_existing[s][1])]
    /\ e_pc' = [e_pc EXCEPT ![s] = "Idle"]
    /\ e_form' = [e_form EXCEPT ![s] = NoSave]
    /\ e_existing' = [e_existing EXCEPT ![s] = <<>>]
    /\ e_coords' = [e_coords EXCEPT ![s] = <<>>]

SessionNext ==
    \/ \E s \in Sessions : save_read(s) /\ UNCHANGED <<codecVars, filterVars, sheetVars, adminVars, app2Vars, repoVars, submitVars, raceVars, backendVars, mapVars, gateVars>>
    \/ \E s \in Sessions : save_resolve(s) /\ UNCHANGED <<codecVars, filterVars, sheetVars, adminVars, app2Vars, repoVars, submitVars, raceVars, backendVars, mapVars, gateVars>>
    \/ \E s \in Sessions : save_write(s) /\ UNCHANGED <<codecVars, filterVars, sheetVars, adminVars, app2Vars, repoVars, submitVars, raceVars, backendVars, mapVars, gateVars>>

SessionStart ==
    SessionInit /\ CodecIdle /\ FilterIdle /\ SheetInit /\ AdminInit /\ RepoInit
    /\ App2Init /\ SubmitInit /\ RaceInit /\ BackendInit /\ MapInit /\ GateIdle

SessionSpec == SessionStart /\ [][SessionNext]_vars

----------------------------------------------------------------------------
(* Specification of app2.py's add form and map.                             *)

\* The values of the 'input-days' checklist, Monday's first.
ChecklistDays == <<Mon, Tue, Wed, Thu, Fri, Sat, Sun>>

\* The values of the 'day-filter' dropdown after 'All', Monday's first.
DropdownDays ==
    <<Monday, Tuesday, Wednesday, Thursday, Friday, Saturday, Sunday>>

\* The value the dropdown sends for day x (1 is Monday).
DayFilterValue(x) == DropdownDays[x]

\* The 'input-days' values submitted: one day, two days, none.
CheckedDays ==
    {<<ChecklistDays[x]>> : x \in 1..7} \cup {<<Mon, Tue>>, <<>>}

\* The ids of the rows in the frame update_map hands to create_map.
Shown(rows, day, time) ==
    LET df == get_locations_df(rows, day, IF Truthy(time) THEN time ELSE NoneStr)
    IN {df[k].id : k \in 1..Len(df)}

\* update_map (app2.py): a filter dropdown changed.
map_update_map ==
    \E day \in {All} \cup {DayFilterValue(x) : x \in 1..7}, time \in {<<>>, HHMM(17, 0)} :
        /\ m_day' = day
        /\ m_time' = time
        /\ m_shown' = Shown(m_db, day, time)
        /\ UNCHANGED <<m_db, m_seq, m_checked>>

\* add_location (app2.py): Submit of the add form. The new value of
\* 'refresh-trigger' makes update_map draw the map again.
map_add_location ==
    \E days \in CheckedDays :
        LET form == Form("Bar A", "1 Main St", "None", days, <<900, 1140>>)
        IN
        /\ UNCHANGED <<m_day, m_time>>
        /\ IF ~AllRequired(form)
           THEN UNCHANGED <<m_db, m_seq, m_checked, m_shown>>
           ELSE \E geo \in GeocodeOutcomes(form.address) :
               IF GeocodeFailed(geo)
               THEN UNCHANGED <<m_db, m_seq, m_checked, m_shown>>
               ELSE
                 LET new == Row(m_seq + 1, form.name, form.address, geo[1],
                                geo[2], form.desc, Join(form.days, <<",">>),
                                minutes_to_time(form.time_range[1]),
                                minutes_to_time(form.time_range[2]))
                 IN
                 \/ \* the INSERT raises
                    UNCHANGED <<m_db, m_seq, m_checked, m_shown>>
                 \/ /\ m_seq < Len(SampleData) + MaxRows
                    /\ m_db' = Append(m_db, new)
                    /\ m_seq' = m_seq + 1
                    /\ m_checked' = Append(m_checked, form.days)
                    /\ m_shown' = Shown(m_db', m_day, m_time)

MapNext ==
    \/ map_update_map /\ UNCHANGED <<codecVars, filterVars, sheetVars, adminVars, app2Vars, repoVars, submitVars, raceVars, backendVars, sessionVars, gateVars>>
    \/ map_add_location /\ UNCHANGED <<codecVars, filterVars, sheetVars, adminVars, app2Vars, repoVars, submitVars, raceVars, backendVars, sessionVars, gateVars>>

MapStart ==
    MapInit /\ CodecIdle /\ FilterIdle /\ SheetInit /\ AdminInit /\ RepoInit
    /\ App2Init /\ SubmitInit /\ RaceInit /\ BackendInit /\ SessionInit
    /\ GateIdle

MapSpec == MapStart /\ [][MapNext]_vars

----------------------------------------------------------------------------
(* Specification of app.py's admin gate.                                    *)

\* The Login clicks followed.
MaxLogins == 2

\* if password == os.getenv("ADMIN_PASSWORD")
PasswordMatches(password, secret) == password = secret

\* display_page (app.py)
display_page(pathname, is_authed) ==
    IF pathname = "/manage"
    THEN IF is_authed THEN "manage_page" ELSE "login_form"
    ELSE "map_page"

\* login (app.py): the Login button. Its outputs to 'auth-store' and to the
\* url make display_page lay out the page again.
login ==
    \E password \in Passwords :
        /\ g_clicks < MaxLogins
        /\ g_clicks' = g_clicks + 1
        /\ g_auth' = PasswordMatches(password, g_secret)
        /\ g_pathname' = IF PasswordMatches(password, g_secret) THEN "/manage"
                         ELSE g_pathname
        /\ g_page' = display_page(g_pathname', g_auth')
        /\ g_last' = GateTrace("login", password, g_pathname)
        /\ UNCHANGED g_secret

\* The browser goes to a path: display_page lays out the page.
navigate ==
    \E pathname \in {"/", "/manage"} :
        /\ g_pathname' = pathname
        /\ g_page' = display_page(pathname, g_auth)
        /\ g_last' = GateTrace("display_page", "None", pathname)
        /\ UNCHANGED <<g_secret, g_auth, g_clicks>>

GateNext ==
    \/ login /\ UNCHANGED <<codecVars, filterVars, sheetVars, adminVars, app2Vars, repoVars, submitVars, raceVars, backendVars, sessionVars, mapVars>>
    \/ navigate /\ UNCHANGED <<codecVars, filterVars, sheetVars, adminVars, app2Vars, repoVars, submitVars, raceVars, backendVars, sessionVars, mapVars>>

GateStart ==
    GateInit /\ CodecIdle /\ FilterIdle /\ SheetInit /\ AdminInit /\ RepoInit
    /\ App2Init /\ SubmitInit /\ RaceInit /\ BackendInit /\ SessionInit
    /\ MapInit

GateSpec == GateStart /\ [][GateNext]_vars

----------------------------------------------------------------------------
(* Specification of admin.py on the relational repository: rows are        *)
(* deleted, opened in the edit modal, edited and saved.                    *)

\* What the operator may have entered in app2.py's add form: a complete
\* form, and one with no day ticked.
App2Forms ==
    { Form("Bar A", "1 Main St", "None", <<Mon, Tue>>, <<900, 1140>>),
      Form("Bar A", "1 Main St", "None", <<>>, <<900, 1140>>) }

\* A run of app2.py's add_location. inserted: the rows it inserted.
App2Trace(outcome, form, n_clicks, geocoded, inserted, feedback, fields, pre) ==
    [op |-> "app2_add_location", outcome |-> outcome, form |-> form,
     n_clicks |-> n_clicks, geocoded |-> geocoded, inserted |-> inserted,
     feedback |-> feedback, fields |-> fields, pre_refresh |-> pre]

\* A return of app2.py's add_location that follows no insert.
App2Outputs(feedback, fields, counter, outcome, form, n_clicks, geocoded) ==
    /\ app2_refresh' = counter
    /\ admin_last' = App2Trace(outcome, form, n_clicks, geocoded, <<>>,
                               feedback, fields, app2_refresh)
    /\ UNCHANGED <<db, db_seq>>

\* add_location (app2.py): the add form's Submit, writing to the database
\* file admin.py manages. AUTOINCREMENT gives the row the id after the
\* highest ever issued.
app2_add_location ==
    /\ UNCHANGED <<admin_refresh, admin_table, edit_modal, edit_location_id,
                   edit_form>>
    /\ \/ \* if n_clicks is None
          App2Outputs("", FreshForm, 0, "initial", FreshForm, <<>>, <<>>)
       \/ \E form \in App2Forms :
           LET n_clicks == <<1>>
               refresh_count == app2_refresh
           IN
           IF ~AllRequired(form)
           THEN App2Outputs("warning: Please fill in all required fields.",
                            form, refresh_count, "validation_error", form,
                            n_clicks, <<>>)
           ELSE \E geo \in GeocodeOutcomes(form.address) :
               IF GeocodeFailed(geo)
               THEN App2Outputs("danger: Could not find location.", form,
                                refresh_count, "geocode_error", form, n_clicks,
                                <<geo>>)
               ELSE
                 LET new == Row(db_seq + 1, form.name, form.address, geo[1],
                                geo[2], form.desc, Join(form.days, <<",">>),
                                minutes_to_time(form.time_range[1]),
                                minutes_to_time(form.time_range[2]))
                 IN
                 \/ \* the INSERT raises
                    App2Outputs("danger: Error", form, refresh_count,
                                "storage_error", form, n_clicks, <<geo>>)
                 \/ /\ DbWrites < MaxWrites
                    /\ db' = Append(db, new)
                    /\ db_seq' = db_seq + 1
                    /\ app2_refresh' = refresh_count + 1
                    /\ admin_last' = App2Trace("success", form, n_clicks,
                                               <<geo>>, <<new>>,
                                               "success: Location added successfully!",
                                               ClearedForm, refresh_count)

AdminNext ==
    \/ app2_add_location /\ UNCHANGED <<codecVars, filterVars, sheetVars, repoVars, submitVars, raceVars, backendVars, sessionVars, mapVars, gateVars>>
    \/ delete_location_callback /\ UNCHANGED <<codecVars, filterVars, sheetVars, repoVars, app2Vars, submitVars, raceVars, backendVars, sessionVars, mapVars, gateVars>>
    \/ toggle_edit_modal /\ UNCHANGED <<codecVars, filterVars, sheetVars, repoVars, app2Vars, submitVars, raceVars, backendVars, sessionVars, mapVars, gateVars>>
    \/ save_edited_location /\ UNCHANGED <<codecVars, filterVars, sheetVars, repoVars, app2Vars, submitVars, raceVars, backendVars, sessionVars, mapVars, gateVars>>

AdminStart ==
    AdminInit /\ CodecIdle /\ FilterIdle /\ SheetInit /\ RepoInit /\ App2Init
    /\ SubmitInit /\ RaceInit
    /\ BackendInit
    /\ SessionInit
    /\ MapInit /\ GateIdle

AdminSpec == AdminStart /\ [][AdminNext]_vars

----------------------------------------------------------------------------
(* Claims about the filter (FilterSpec) *)

NoOpDay(d) == d = All \/ ~Truthy(d)

\* sub occurs in s as a contiguous run of characters.
IsSubstring(sub, s) ==
    \E pre \in 0..Len(s) :
        /\ pre + Len(sub) <= Len(s)
        /\ \A k \in 1..Len(sub) : s[pre + k] = sub[k]

\* The selector passes the row's day test: no day filter, or the row's days
\* are present and contain the selector.
DayAdmits(r, d) ==
    NoOpDay(d) \/ (r.days # NoneStr /\ IsSubstring(d, r.days))

\* The selector passes the row's time test: no time filter, or the selector
\* lies in the row's closed window, compared as strings.
TimeAdmits(r, t) ==
    ~Truthy(t) \/ (StrLeq(r.start_time, t) /\ StrLeq(t, r.end_time))

\* A two-digit, colon, two-digit string.
FixedWidth(s) ==
    /\ Len(s) = 5 /\ s[3] = ":"
    /\ \A i \in {1, 2, 4, 5} : IsDigit(s[i])

\* C1: filtering is idempotent: applying get_locations' filter to its own
\* output with the same day and time selectors returns the same rows in the
\* same order.
C1_FilterIdempotent ==
    f_pc = "shown" =>
        get_locations_df(f_out, f_day,
                         IF Truthy(f_time) THEN f_time ELSE NoneStr) = f_out

\* C1 witness: a filter that kept one row and dropped another.
C1_Witness ==
    /\ f_pc = "shown" /\ Truthy(f_time) /\ Truthy(f_day) /\ f_day # All
    /\ f_out # <<>> /\ Len(f_out) < Len(f_locs)

\* C2: with the no-op selectors (day "All" or absent, time absent or empty)
\* the filter returns every row the repository returned, in the same order.
C2_NoOpSelectorsReturnAll ==
    (f_pc = "shown" /\ NoOpDay(f_day) /\ ~Truthy(f_time)) => f_out = f_locs

\* C2 witness: a two-row frame shown under day "All" and time ''.
C2_Witness ==
    /\ f_pc = "shown" /\ f_day = All /\ f_time = <<>>
    /\ Len(f_locs) = 2 /\ f_out = f_locs

\* C3: with a time selector t, a row that passes the day filter is kept iff
\* start_time <= t <= end_time, both endpoints inclusive; for fixed-width
\* times the string comparison is the numeric one; the kept rows keep their
\* order. A 15:00-19:00 row matches 15:00, 17:00 and 19:00 and not 20:00.
C3_TimeWindow ==
    (f_pc = "shown" /\ Truthy(f_time)) =>
        /\ \A i \in 1..Len(f_locs) :
              LET r == f_locs[i]
              IN /\ (r \in Range(f_out)) <=>
                        (DayAdmits(r, f_day)
                         /\ StrLeq(r.start_time, f_time)
                         /\ StrLeq(f_time, r.end_time))
                 /\ (DayAdmits(r, f_day) /\ FixedWidth(r.start_time)
                     /\ FixedWidth(r.end_time) /\ FixedWidth(f_time)) =>
                        ((r \in Range(f_out)) <=>
                            /\ time_to_minutes(r.start_time).val
                                   <= time_to_minutes(f_time).val
                            /\ time_to_minutes(f_time).val
                                   <= time_to_minutes(r.end_time).val)
                 /\ (NoOpDay(f_day) /\ r.start_time = HHMM(15, 0)
                     /\ r.end_time = HHMM(19, 0)) =>
                        ((r \in Range(f_out)) <=>
                            f_time \in {HHMM(15, 0), HHMM(17, 0), HHMM(19, 0)})
        /\ Range(f_out) \subseteq Range(f_locs)
        /\ \A i, j \in 1..Len(f_out) :
              i < j => \E a, b \in 1..Len(f_locs) :
                           a < b /\ f_locs[a] = f_out[i] /\ f_locs[b] = f_out[j]

\* C3 witness: selector 19:00 keeps a row that ends at 19:00 and drops a row
\* that starts at 20:00.
C3_Witness ==
    /\ f_pc = "shown" /\ f_time = HHMM(19, 0) /\ f_day = All
    /\ \E r \in Range(f_out) : r.end_time = HHMM(19, 0)
    /\ \E r \in Range(f_locs) : r.start_time = HHMM(20, 0) /\ r \notin Range(f_out)

\* C4: with a day selector other than "All", a row that passes the time
\* filter is kept iff its days string contains the selector as a substring; a
\* row whose days are missing is never kept. Days "Monday,Tuesday" match
\* "Monday" and not "Friday".
C4_DaySubstring ==
    (f_pc = "shown" /\ Truthy(f_day) /\ f_day # All) =>
        \A i \in 1..Len(f_locs) :
            LET r == f_locs[i]
            IN /\ (r \in Range(f_out)) <=>
                      (TimeAdmits(r, f_time)
                       /\ r.days # NoneStr /\ IsSubstring(f_day, r.days))
               /\ r.days = NoneStr => r \notin Range(f_out)
               /\ (r.days = Join(<<Monday, Tuesday>>, <<",">>) /\ ~Truthy(f_time)) =>
                      /\ f_day = Monday => r \in Range(f_out)
                      /\ f_day = Friday => r \notin Range(f_out)

\* C4 witness: selector "Monday" keeps the "Monday,Tuesday" row and drops the
\* row whose days are missing.
C4_Witness ==
    /\ f_pc = "shown" /\ f_day = Monday /\ ~Truthy(f_time)
    /\ \E r \in Range(f_out) : r.days = Join(<<Monday, Tuesday>>, <<",">>)
    /\ \E r \in Range(f_locs) : r.days = NoneStr /\ r \notin Range(f_out)

----------------------------------------------------------------------------
(* Claims about the time codec (CodecSpec) *)

\* C5: for every valid zero-padded "HH:MM" string s, time_to_minutes(s) lies
\* in 0..1439 and minutes_to_time(time_to_minutes(s)) = s.
C5_RoundTrip ==
    c_str \in ValidTimeStrings =>
        /\ c_pc \in {"parsed", "formatted"} => (c_min.ok /\ c_min.val \in 0..1439)
        /\ c_pc = "formatted" => c_out = c_str

\* C5 witness: "09:05" parsed to 545 and formatted back.
C5_Witness ==
    /\ c_pc = "formatted" /\ c_str = HHMM(9, 5)
    /\ c_min = [ok |-> TRUE, val |-> 545] /\ c_out = HHMM(9, 5)

----------------------------------------------------------------------------
(* Claims about app.py on the spreadsheet repository (SheetSpec) *)

Inserted == last.op = "add_location" /\ last.outcome = "success"

\* C6: insert_location gives the new record the id max(existing ids) + 1, or
\* 1 when the store is empty, returns that id and appends exactly one record
\* carrying it; the id differs from every id in the store, so the ids stay
\* pairwise distinct.
C6_InsertAssignsNextId ==
    /\ [](\A i, j \in 1..Len(ws) :
             get_all_records(ws)[i].id = get_all_records(ws)[j].id => i = j)
    /\ [][Inserted' =>
            LET ids == StoredIds(ws)
                new == last'.ret[1]
            IN /\ Len(last'.ret) = 1
               /\ ids = {} => new = 1
               /\ ids # {} => \E m \in ids : new = m + 1 /\ \A x \in ids : x <= m
               /\ new \notin ids
               /\ Len(ws') = Len(ws) + 1
               /\ SubSeq(ws', 1, Len(ws)) = ws
               /\ get_all_records(ws')[Len(ws')].id = new]_vars

\* C6 witness: record 1 was deleted, the store held id 2 alone, and the
\* insert returned 3.
C6_Witness ==
    /\ Inserted /\ last.ret = <<3>>
    /\ StoredIds(ws) = {2, 3}

\* C7 (as claimed): an id that was assigned and then deleted is never the id
\* of a record inserted later, so no stored record carries a retired id.
C7_IdsNeverReused ==
    \A k \in 1..Len(r_ws) : get_all_records(r_ws)[k].id \notin r_retired

\* C8: a description-only update changes only the description of the record
\* with that id: its other fields are unchanged and every other record is
\* unchanged.
C8_DescriptionOnly ==
    [][(last'.op = "save-btn" /\ last'.outcome = "success") =>
          /\ Len(ws') = Len(ws)
          /\ \A k \in 1..Len(ws) :
                LET old == get_all_records(ws)[k]
                    new == get_all_records(ws')[k]
                IN IF old.id = last'.target.id[1]
                   THEN new = [old EXCEPT !.description = last'.target.desc]
                   ELSE new = old]_vars

\* C8 witness: of two stored records, the one saved has the new description
\* and the other has not.
C8_Witness ==
    /\ last.op = "save-btn" /\ last.outcome = "success"
    /\ last.target.desc = "drafts" /\ Len(ws) = 2
    /\ \E i, j \in 1..2 :
          /\ get_all_records(ws)[i].id = last.target.id[1]
          /\ get_all_records(ws)[i].description = "drafts"
          /\ get_all_records(ws)[j].description = "wells"

\* A required field of the add form is missing or empty.
MissingRequired(form) ==
    \/ form.name \in {"", "None"}
    \/ form.address \in {"", "None"}
    \/ form.days = <<>>
    \/ form.time_range = <<>>

\* C10: a submit of the add form with a required field missing or empty
\* yields the validation message, calls neither the geocoder nor the
\* repository, leaves the store and the refresh counter unchanged and returns
\* the entered values as they were.
C10_ValidationError ==
    /\ []((last.op = "add_location" /\ last.n_clicks # <<>>
           /\ MissingRequired(last.form)) =>
              /\ last.outcome = "validation_error"
              /\ last.feedback = "warning: Please fill in all required fields."
              /\ last.geocoded = <<>>
              /\ last.repo = <<>>
              /\ last.fields = last.form
              /\ refresh_trigger = last.pre_refresh)
    /\ [][(last'.op = "add_location" /\ last'.n_clicks # <<>>
           /\ MissingRequired(last'.form)) =>
              /\ ws' = ws
              /\ refresh_trigger' = refresh_trigger]_vars

\* C10 witness: a form without days was submitted to a store of one record
\* with the counter at 1.
C10_Witness ==
    /\ last.op = "add_location" /\ last.outcome = "validation_error"
    /\ last.form.days = <<>> /\ last.form.name = "Bar A"
    /\ Len(ws) = 1 /\ refresh_trigger = 1


----------------------------------------------------------------------------
(* admin.py: the full edit *)

\* A save that got as far as comparing the submitted address with the
\* stored one: a click on an open record, every required field filled in,
\* the record found.
SaveCompared(t) ==
    /\ t.op = "save_edited_location"
    /\ t.outcome \in {"geocode_error", "storage_error", "success"}

\* The rows of the table other than the one with the id.
OtherRows(rows, location_id) ==
    SelectSeq(rows, LAMBDA r : r.id # location_id)

\* C9: in save_edited_location, when the submitted address differs from the
\* stored address the geocoder is called (once, with the submitted address)
\* and update_location is handed the coordinates it returned, which the
\* record then carries along with the submitted fields; when the geocoder
\* fails, update_location is not called and the table is left as it was.
\* When the submitted address equals the stored address the geocoder is not
\* called and update_location is handed the stored coordinates, which the
\* record keeps.  No save touches another record.
C9_SaveRegeocodesOnAddressChange ==
    [][LET t == admin_last'
           location_id == t.edit.id[1]
           form == t.edit.form
           existing == get_location_by_id(db, location_id)[1]
           written == get_location_by_id(db', location_id)[1]
       IN
       SaveCompared(t) =>
         /\ t.found = <<existing>>
         /\ OtherRows(db', location_id) = OtherRows(db, location_id)
         /\ form.address # existing.address =>
              /\ Len(t.geocoded) = 1
              /\ t.geocoded[1].address = form.address
              /\ t.geocoded[1].result \in GeocodeOutcomes(form.address)
              /\ IF "None" \in {t.geocoded[1].result[1], t.geocoded[1].result[2]}
                 THEN /\ t.outcome = "geocode_error"
                      /\ t.updates = <<>>
                      /\ db' = db
                      /\ admin_refresh' = admin_refresh
                 ELSE /\ t.outcome \in {"storage_error", "success"}
                      /\ Len(t.updates) = 1
                      /\ t.updates[1].lat = t.geocoded[1].result[1]
                      /\ t.updates[1].lon = t.geocoded[1].result[2]
                      /\ t.outcome = "success" =>
                           /\ written.lat = t.geocoded[1].result[1]
                           /\ written.lon = t.geocoded[1].result[2]
         /\ form.address = existing.address =>
              /\ t.geocoded = <<>>
              /\ t.outcome \in {"storage_error", "success"}
              /\ Len(t.updates) = 1
              /\ t.updates[1].lat = existing.lat
              /\ t.updates[1].lon = existing.lon
              /\ t.outcome = "success" =>
                   /\ written.lat = existing.lat
                   /\ written.lon = existing.lon
         /\ t.outcome = "storage_error" => db' = db
         /\ t.outcome = "success" =>
              written = Row(location_id, form.name, form.address, written.lat,
                            written.lon, form.description, form.days,
                            form.start_time, form.end_time)
      ]_vars

\* A record moved to a new address carries the new address's coordinates,
\* and a later save of it under the same address (a rename) has kept them
\* without a geocoder call.
C9_Witness ==
    /\ admin_last.op = "save_edited_location"
    /\ admin_last.outcome = "success"
    /\ admin_last.geocoded = <<>>
    /\ admin_last.edit.form.name = "Renamed"
    /\ \E k \in 1..Len(db) :
         /\ <<db[k].id>> = admin_last.edit.id
         /\ db[k].address = "2 Main St"
         /\ <<db[k].lat, db[k].lon>> = Coordinates("2 Main St")
         /\ db[k].name = "Renamed"


----------------------------------------------------------------------------
(* The repository's answer for an id that is not stored *)

\* The last repository call named an id that no stored record carried.
TargetMissing ==
    /\ r_last.arg # <<>>
    /\ r_last.arg[1] \notin StoredIds(r_last.pre)

\* C11 (as claimed): delete_location on an id that is not in the store tells
\* its caller so, with a result other than the None it returns after deleting
\* a record, and leaves the number of stored records unchanged.
C11_DeleteMissingIsNotFound ==
    (r_last.op = "delete_location" /\ TargetMissing) =>
        /\ r_last.ret # <<>>
        /\ Len(r_ws) = Len(r_last.pre)


\* C18 (as claimed): an update that names an id not in the store tells its
\* caller so, with a result other than the None update_description returns
\* after writing a description, and leaves every stored record unchanged.
C18_UpdateMissingIsNotFound ==
    (r_last.op = "update_description" /\ TargetMissing) =>
        /\ r_last.ret # <<>>
        /\ r_ws = r_last.pre


----------------------------------------------------------------------------
(* app.py: the add form past validation *)

\* A submit of the add form with every required field filled in.
ValidSubmit(t) ==
    /\ t.op = "add_location" /\ t.n_clicks # <<>>
    /\ ~MissingRequired(t.form)

\* C12: when the add form passes validation and the geocoder answers
\* (None, None), add_location returns the recoverable error alert, calls no
\* repository function, leaves the store and the refresh counter as they
\* were and returns the entered values unchanged.
C12_GeocodeError ==
    [][(ValidSubmit(last') /\ last'.geocoded = << <<"None", "None">> >>) =>
          /\ last'.outcome = "geocode_error"
          /\ last'.feedback = "danger: Could not find location."
          /\ last'.repo = <<>>
          /\ last'.fields = last'.form
          /\ ws' = ws
          /\ refresh_trigger' = refresh_trigger
          /\ refresh_trigger' = last'.pre_refresh]_vars

\* C12 witness: the lookup of "Bar B" failed on a store of one record with
\* the counter at 1.
C12_Witness ==
    /\ last.op = "add_location" /\ last.outcome = "geocode_error"
    /\ last.form.name = "Bar B"
    /\ last.geocoded = << <<"None", "None">> >>
    /\ Len(ws) = 1 /\ refresh_trigger = 1


\* The days of a stored record, as the list split(',') gives back.
StoredDays(r) == Split(r.days, ",")

\* C13: when the add form passes validation and the geocoder finds the
\* address, add_location calls insert_location once; when that call returns,
\* the store has exactly one more record, after the others, carrying the
\* submitted name, address and description, the geocoder's lat and lon, the
\* days joined by commas and the slider's endpoints as HH:MM, the refresh
\* counter is one higher and the form's fields are back at their defaults.
C13_AddInsertsOneRecord ==
    [][(ValidSubmit(last') /\ last'.geocoded # << <<"None", "None">> >>) =>
          /\ Len(last'.geocoded) = 1
          /\ last'.geocoded[1] = Coordinates(last'.form.address)
          /\ last'.repo = <<"insert_location">>
          /\ last'.outcome \in {"success", "storage_error"}
          /\ last'.outcome = "success" =>
               LET new == get_all_records(ws')[Len(ws')]
                   form == last'.form
               IN
               /\ Len(ws') = Len(ws) + 1
               /\ SubSeq(ws', 1, Len(ws)) = ws
               /\ new.name = form.name
               /\ new.address = form.address
               /\ new.description = (IF form.desc = "None" THEN "" ELSE form.desc)
               /\ <<new.lat, new.lon>> = last'.geocoded[1]
               /\ StoredDays(new) = form.days
               /\ FixedWidth(new.start_time) /\ FixedWidth(new.end_time)
               /\ time_to_minutes(new.start_time) = [ok |-> TRUE, val |-> form.time_range[1]]
               /\ time_to_minutes(new.end_time) = [ok |-> TRUE, val |-> form.time_range[2]]
               /\ refresh_trigger' = refresh_trigger + 1
               /\ last'.fields = ClearedForm
               /\ last'.feedback = "success: Location added successfully!"]_vars

\* C13 witness: "Bar A" was added as the second record.
C13_Witness ==
    /\ last.op = "add_location" /\ last.outcome = "success"
    /\ Len(ws) = 2
    /\ get_all_records(ws)[2].name = "Bar A"
    /\ get_all_records(ws)[2].days = Join(<<Monday, Tuesday>>, <<",">>)
    /\ get_all_records(ws)[2].start_time = HHMM(15, 0)
    /\ get_all_records(ws)[2].lat = "35.47"


----------------------------------------------------------------------------
(* app.py: the refresh counters and the views *)

\* The last callback run was a mutation that succeeded.
Mutated ==
    /\ last.op \in {"add_location", "save-btn", "delete-btn"}
    /\ last.outcome = "success"

\* C14 (as claimed): after every successful mutation (an add, a description
\* save, a delete) the management table is the rendering of the store as the
\* mutation left it.
C14_TableFreshAfterMutation ==
    Mutated => table = RenderedTable(ws)


\* C15 (as claimed): the refresh counter a handler outputs is never smaller
\* than the counter before the invocation, an invocation with no click yet
\* included.
C15_CounterMonotonic ==
    /\ last.op = "add_location" => refresh_trigger >= last.pre_refresh
    /\ last.op \in {"save-btn", "delete-btn"} => manage_refresh >= last.pre_refresh


----------------------------------------------------------------------------
(* The database file under app2.py's add form and admin.py's edits *)

\* A row with both coordinates present.
HasCoordinates(r) == r.lat # "None" /\ r.lon # "None"

\* C16: whatever add submissions and edit saves have run, with the geocoder
\* free to fail on each call, every stored location that has an address has
\* both lat and lon, and no handler has handed the store a row without them.
C16_CoordinatesPresent ==
    /\ \A k \in 1..Len(db) :
         TruthyText(db[k].address) => HasCoordinates(db[k])
    /\ admin_last.op = "save_edited_location" =>
         \A k \in 1..Len(admin_last.updates) : HasCoordinates(admin_last.updates[k])
    /\ admin_last.op = "app2_add_location" =>
         \A k \in 1..Len(admin_last.inserted) : HasCoordinates(admin_last.inserted[k])

\* C16 witness: the row the add form inserted (id 4) was then saved from the
\* edit modal under a new name and the same address, and has the coordinates
\* the geocoder gave at the insert.
C16_Witness ==
    /\ admin_last.op = "save_edited_location"
    /\ admin_last.outcome = "success"
    /\ admin_last.edit.id = <<4>>
    /\ admin_last.geocoded = <<>>
    /\ \E k \in 1..Len(db) :
         /\ db[k].id = 4 /\ db[k].name = "Renamed"
         /\ db[k].address = "1 Main St"
         /\ <<db[k].lat, db[k].lon>> = Coordinates("1 Main St")


\* C17 (as claimed): whatever add submissions and edit saves have run, every
\* stored location has start_time <= end_time as strings.
C17_StartNotAfterEnd ==
    \A k \in 1..Len(db) : StrLeq(db[k].start_time, db[k].end_time)


\* C19 (as claimed): whenever the repository call of a mutation handler
\* fails, the handler outputs an error message and leaves its refresh counter
\* as it was.
C19_StorageErrorShown ==
    admin_last.outcome = "storage_error" =>
        /\ admin_last.feedback # ""
        /\ admin_last.op = "app2_add_location" => app2_refresh = admin_last.pre_refresh
        /\ admin_last.op # "app2_add_location" => admin_refresh = admin_last.pre_refresh


----------------------------------------------------------------------------
(* The time codec's domain *)

\* Two colon-separated integers, the hour in 0..23 and the minute in 0..59.
WellFormedTime(str) ==
    LET parts == Split(str, ":")
    IN /\ Len(parts) = 2
       /\ PyInt(parts[1]).ok /\ PyInt(parts[1]).val \in 0..23
       /\ PyInt(parts[2]).ok /\ PyInt(parts[2]).val \in 0..59

\* C20 (as claimed): time_to_minutes accepts exactly the well-formed inputs,
\* and what it returns is in 0..1439.
C20_ParseChecksRange ==
    c_pc \in {"parsed", "formatted"} =>
        /\ c_min.ok <=> WellFormedTime(c_str)
        /\ c_min.ok => c_min.val \in 0..1439


\* C21 (as claimed): minutes_to_time gives a zero-padded HH:MM string for
\* every slider value, and "00:00" for the slider's maximum, 1440.
C21_FormatPadsAndWraps ==
    c_pc = "displayed" =>
        /\ FixedWidth(c_out)
        /\ c_min.val = 1440 => c_out = HHMM(0, 0)


----------------------------------------------------------------------------
(* app.py: the steps of one add submission *)

\* The moves of Idle -> Validating -> (Geocoding -> Persisting -> Idle) | Idle.
SubmissionMoves ==
    { <<"Idle", "Validating">>, <<"Validating", "Geocoding">>,
      <<"Validating", "Idle">>, <<"Geocoding", "Persisting">>,
      <<"Geocoding", "Idle">>, <<"Persisting", "Idle">> }

\* How often a call appears in a run's log.
Calls(log, name) == Cardinality({i \in 1..Len(log) : log[i] = name})

\* C22: an add submission moves Idle -> Validating -> (Geocoding ->
\* Persisting -> Idle) | Idle. The geocoder is called only from Geocoding,
\* which is entered only with every required field present; insert_location
\* is called only from Persisting, which is entered only with the geocoder's
\* coordinates; a run calls each at most once; a run that has started is
\* pending until it is back in Idle, which it reaches, with one outcome that
\* matches the calls it made.
C22_SubmissionStateMachine ==
    /\ [][s_pc' # s_pc => <<s_pc, s_pc'>> \in SubmissionMoves]_vars
    /\ [][Calls(s_log', "geocode") > Calls(s_log, "geocode") =>
            s_pc = "Geocoding" /\ ~MissingRequired(s_form)]_vars
    /\ [][Calls(s_log', "insert") > Calls(s_log, "insert") =>
            /\ s_pc = "Persisting"
            /\ s_log = <<"geocode">>
            /\ s_geo = <<Coordinates(s_form.address)>>]_vars
    /\ [](Calls(s_log, "geocode") <= 1 /\ Calls(s_log, "insert") <= 1)
    /\ [](s_pc # "Idle" <=> s_outcome = "pending")
    /\ [](s_pc = "Idle" /\ s_outcome \notin {"none", "initial"} =>
            \/ s_outcome = "validation_error" /\ s_log = <<>>
                  /\ MissingRequired(s_form)
            \/ s_outcome = "geocode_error" /\ s_log = <<"geocode">>
            \/ s_outcome \in {"storage_error", "success"}
                  /\ s_log = <<"geocode", "insert">>)
    /\ (s_pc # "Idle") ~> (s_pc = "Idle")

\* C22 witness: a second submission went through Geocoding and Persisting
\* and is back in Idle with a record added.
C22_Witness ==
    /\ s_pc = "Idle" /\ s_outcome = "success"
    /\ s_log = <<"geocode", "insert">>
    /\ s_form.name = "Bar B"
    /\ Len(s_ws) = 2


----------------------------------------------------------------------------
(* data_store.py: two inserts at once *)

\* Both writers' calls have returned, and both had read the same records:
\* each read came before the other's append.
BothReadBeforeEitherAppended ==
    /\ \A w \in Writers : w_pc[w] = "appended"
    /\ w_existing[1] = w_existing[2]

\* Two records of the sheet carry the same id.
DuplicateIds(sheet) ==
    \E i, j \in 1..Len(sheet) :
        i # j /\ get_all_records(sheet)[i].id = get_all_records(sheet)[j].id

\* C23: when two insert_location calls both read the records before either
\* appends its row, both compute the same max(id) + 1, both return it, and
\* the store holds two records with that id.
C23_DuplicateIdRace ==
    BothReadBeforeEitherAppended =>
        /\ w_ret[1] = w_ret[2]
        /\ w_ret[1] = <<NextId(w_existing[1])>>
        /\ DuplicateIds(w_ws)

\* C23 witness: on a sheet holding record 1, both writers read, both appended
\* and both returned 2.
C23_Witness ==
    /\ BothReadBeforeEitherAppended
    /\ Len(w_existing[1]) = 1
    /\ w_ret[1] = <<2>> /\ w_ret[2] = <<2>>
    /\ Len(w_ws) = 3
    /\ get_all_records(w_ws)[2].id = 2 /\ get_all_records(w_ws)[3].id = 2


----------------------------------------------------------------------------
(* The two repositories' ids *)

\* C24 (as claimed): given the same inserts and deletes from the same
\* starting contents, the table and the worksheet give each inserted record
\* the same id and hold the same set of ids.
C24_BackendsAgreeOnIds ==
    /\ b_last.sheet_id = b_last.db_id
    /\ StoredIds(b_ws) = {b_db[k].id : k \in 1..Len(b_db)}


----------------------------------------------------------------------------
(* Two sessions saving edits *)

\* The row's (lat, lon) is what the geocoder finds for the row's address.
Consistent(r) == <<r.lat, r.lon>> = Coordinates(r.address)

\* C25: with a deterministic geocoder and a consistent initial table, after
\* any interleaving of two sessions' saves (read the row, geocode if the
\* address differs, write) every stored row's coordinates are the geocoder's
\* for the row's stored address.
C25_CoordinatesFollowAddress ==
    \A k \in 1..Len(e_db) : Consistent(e_db[k])

\* A session has written a row that the other session had written after the
\* first one read it, keeping the coordinates it read.
C25_Witness ==
    /\ e_last.session \in Sessions
    /\ e_last.stale
    /\ ~e_last.geocoded


----------------------------------------------------------------------------
(* Row buttons the table has just laid out *)

\* The click count is None or 0.
NotClicked(n_clicks) == n_clicks = <<>> \/ n_clicks = <<0>>

\* handle_table_actions (app.py) run for a button that was not clicked
\* calls no repository write and leaves the store and 'manage-refresh' alone.
AppNoWriteWithoutClick ==
    [][(last' # last /\ last'.op \in {"save-btn", "delete-btn"}
        /\ NotClicked(last'.n_clicks))
       => (last'.repo = <<>> /\ ws' = ws
           /\ manage_refresh' = manage_refresh)]_vars

\* delete_location_callback (admin.py) run for a button that was not clicked
\* calls no delete and leaves the table and 'admin-refresh-trigger' alone.
AdminNoWriteWithoutClick ==
    [][(admin_last' # admin_last
        /\ admin_last'.op = "delete_location_callback"
        /\ NotClicked(admin_last'.value))
       => (admin_last'.deletes = <<>> /\ db' = db
           /\ admin_refresh' = admin_refresh)]_vars

\* C26 (as claimed): when handle_table_actions (app.py) or
\* delete_location_callback (admin.py) runs for a triggering button whose
\* n_clicks is None or 0, it calls no repository write, the store is as it
\* was and the refresh counter is as it was.
C26_NoWriteWithoutClick ==
    AppNoWriteWithoutClick /\ AdminNoWriteWithoutClick


----------------------------------------------------------------------------
(* app2.py: the days of the add form and of the day filter *)

\* C27 (as claimed): for each of the seven days, a location added through
\* app2.py's form with that day checked is on the map when the day filter is
\* set to that day (and no time filter is set).
C27_CheckedDayIsFound ==
    \A x \in 1..7 : \A k \in 1..Len(m_db) :
        (/\ m_day = DayFilterValue(x)
         /\ m_time = <<>>
         /\ \E j \in 1..Len(m_checked[k]) : m_checked[k][j] = ChecklistDays[x])
        => m_db[k].id \in m_shown


----------------------------------------------------------------------------
(* The admin gate *)

\* The management page is laid out only at /manage with the auth flag true.
ManageOnlyWhenAuthed ==
    [](g_page = "manage_page" => (g_pathname = "/manage" /\ g_auth))

\* The auth flag becomes true only by a login call whose password equals the
\* configured secret.
AuthOnlyByMatchingLogin ==
    [][(g_auth' /\ ~g_auth)
       => (g_last'.op = "login" /\ g_last'.password = g_secret)]_vars

\* With no secret configured, or with no password entered, a login call does
\* not leave the auth flag true.
NoAuthWithoutSecretOrPassword ==
    [][(g_last' # g_last /\ g_last'.op = "login"
        /\ (g_secret = "None" \/ g_last'.password = "None"))
       => ~g_auth']_vars

\* C28 (as claimed): display_page returns the management page only for
\* /manage with the auth flag true; the flag becomes true only through a
\* login whose password equals the configured ADMIN_PASSWORD; and with no
\* secret configured, or no password entered, no login sets the flag.
C28_ManageOnlyForAuthenticated ==
    /\ ManageOnlyWhenAuthed
    /\ AuthOnlyByMatchingLogin
    /\ NoAuthWithoutSecretOrPassword


----------------------------------------------------------------------------
(* Saving an edit of a record that is gone *)

\* Save was pressed in the modal with every required input filled, for an id
\* no stored row has.
SaveOfMissingRecord(t, rows) ==
    /\ t.op = "save_edited_location"
    /\ t.value # <<>> /\ t.value # <<0>>
    /\ t.edit.id # <<>> /\ t.edit.id # <<0>>
    /\ AllEditRequired(t.edit.form)
    /\ \A k \in 1..Len(rows) : rows[k].id # t.edit.id[1]

\* C29: a Save in the admin edit modal for an id that no longer has a row
\* shows "Location not found.", calls neither the geocoder nor
\* update_location, leaves the table and the refresh counter as they were
\* and keeps the modal open.
C29_SaveOfDeletedRecord ==
    [][(admin_last' # admin_last /\ SaveOfMissingRecord(admin_last', db))
       => (/\ admin_last'.feedback = "danger: Location not found."
           /\ admin_last'.geocoded = <<>>
           /\ admin_last'.updates = <<>>
           /\ db' = db
           /\ admin_refresh' = admin_refresh
           /\ edit_modal')]_vars

\* A row was deleted while the modal was open on it, and Save was pressed.
C29_Witness ==
    /\ SaveOfMissingRecord(admin_last, db)
    /\ admin_last.edit.id[1] \in {SampleData[k].id : k \in 1..Len(SampleData)}
    /\ admin_refresh > 0
    /\ edit_modal

====
